---- MODULE Spec2Model ----
(***************************************************************************)
(* Model of the boefje scheduler (mula/scheduler/schedulers/schedulers/    *)
(* boefje.py): the push pipeline push_boefje_task, the producers that feed *)
(* it, the BoefjePQ.pop of the task runner and the permission evaluator.   *)
(* The task store, the queue store and the external services are not part  *)
(* of boefje.py; they are modelled from their contract.                    *)
(***************************************************************************)
EXTENDS Integers, Sequences, FiniteSets, TLC

VARIABLES
    now,      \* wall clock, in seconds
    tasks,    \* task store: task id -> task row
    bytes,    \* results store: task hash -> last run of scanner+target+org
    lock,     \* holder of the queue lock (PriorityQueue.lock), or Nobody
    wk,       \* thread pool workers running push_boefje_task
    mut,      \* the mutation listener thread (process_mutations)
    nb,       \* the new-boefjes thread (process_new_boefjes)
    res,      \* the rescheduling thread (process_rescheduling) and the schedule store
    pop,      \* task runner threads calling BoefjePQ.pop
    env,      \* catalog and object graph, as the external services serve them
    nextId,   \* source of fresh uuids
    perm,     \* input and result of one evaluation of the permission evaluator
    deadline  \* input and result of one call of calculate_deadline

vars == <<now, tasks, bytes, lock, wk, mut, nb, res, pop, env, nextId, perm, deadline>>

sysvars == <<now, tasks, bytes, lock, wk, mut, nb, res, pop, env, nextId, deadline>>

(***************************************************************************)
(* Python's None for an optional integer (scan level, interval, time).     *)
(***************************************************************************)
None == 0 - 1

Levels == 0 .. 4

OptLevels == {None} \cup Levels

(***************************************************************************)
(* Permission evaluator                                                    *)
(***************************************************************************)
\* A plugin as the permission evaluator reads it.
PermPlugins == [enabled : BOOLEAN, scan_level : OptLevels]

\* A target as the permission evaluator reads it: is_none is Python's
\* `ooi is None`; has_profile is `ooi.scan_profile is not None`; level is
\* `ooi.scan_profile.level`.
PermOOIs ==
    {[is_none |-> TRUE, has_profile |-> FALSE, level |-> None]}
        \cup {[is_none |-> FALSE, has_profile |-> FALSE, level |-> None]}
        \cup [is_none : {FALSE}, has_profile : {TRUE}, level : OptLevels]

\* Mutant: the absent-target row is consulted before the scanner's level.
has_permission_none_first(boefje, ooi) ==
    IF boefje.enabled = FALSE THEN FALSE
    ELSE IF ooi.is_none THEN TRUE
    ELSE IF boefje.scan_level = None THEN FALSE
    ELSE IF ~ooi.has_profile THEN FALSE
    ELSE IF ooi.level = None THEN FALSE
    ELSE IF boefje.scan_level > ooi.level THEN FALSE
    ELSE TRUE

\* Mutant: a scanner may only run on a strictly higher clearance level.
has_permission_strict(boefje, ooi) ==
    IF boefje.enabled = FALSE THEN FALSE
    ELSE IF boefje.scan_level = None THEN FALSE
    ELSE IF ooi.is_none THEN TRUE
    ELSE IF ~ooi.has_profile THEN FALSE
    ELSE IF ooi.level = None THEN FALSE
    ELSE IF boefje.scan_level >= ooi.level THEN FALSE
    ELSE TRUE

has_boefje_permission_to_run(boefje, ooi) ==
    IF boefje.enabled = FALSE THEN FALSE
    ELSE IF boefje.scan_level = None THEN FALSE
    ELSE IF ooi.is_none THEN TRUE
    ELSE IF ~ooi.has_profile THEN FALSE
    ELSE IF ooi.level = None THEN FALSE
    ELSE IF boefje.scan_level > ooi.level THEN FALSE
    ELSE TRUE

(***************************************************************************)
(* Bounds of the model                                                     *)
(***************************************************************************)
\* Number of uuids minted in one behaviour (tasks are never deleted).
MaxIds == 3

\* Last instant of the clock.
MaxTime == 140

\* Number of schedules in the schedule store.
MaxSchedules == 2

(***************************************************************************)
(* Configuration and units                                                 *)
(***************************************************************************)
\* timedelta(minutes=plugin.interval)
SecondsPerMinute == 60

\* ctx.config.pq_grace_period, in seconds
PqGracePeriod == 120

\* ctx.config.pq_maxsize
PqMaxSize == 2

\* The clock is read every 70 seconds: one reading falls between a
\* one-minute interval and pq_grace_period, the next after both.
Tick == SecondsPerMinute + 10

Times == {t \in 0 .. MaxTime : t % Tick = 0}

(***************************************************************************)
(* Catalog (katalogus) and object graph (octopoes)                         *)
(***************************************************************************)
Orgs == {"A", "B"}

OrgList == <<"A", "B">>

BoefjeId == "b1"

NoOOI == "-"

Nobody == "-"

\* models.RunOn
RunOnCreate == "create"

RunOnUpdate == "update"

\* models.MutationOperationType
CREATE == "create"

UPDATE == "update"

DELETE == "delete"

\* The environments a behaviour may run in: the scanner's interval (minutes),
\* whether the catalog duplicates the scanner of A into B, the clearance
\* level of T1 in B and the targets of A.
Envs ==
    [interval : {None, 0, 1}, linked : BOOLEAN, levelB : {1, 2},
     targets : {{"T1"}, {"T1", "T2"}}]

\* The version of a scanner in the catalog now, and the version it had
\* when the payloads of the stored schedules were written.
CurrentVersion == "v2"

StoredVersion == "v1"

NoPlugin ==
    [exists |-> FALSE, id |-> BoefjeId, enabled |-> FALSE, scan_level |-> None,
     interval |-> None, run_on |-> {}, consumes |-> {}, type |-> "boefje",
     version |-> CurrentVersion]

\* Other entries of the catalog, which schedules may still refer to: a
\* disabled scanner, a normalizer, a scanner of another object type and a
\* scanner without a minimum level that takes no target. Any other id is
\* not in the catalog.
DisabledId == "b_off"

NormalizerId == "n1"

DnsBoefjeId == "b_dns"

NoLevelId == "b_nolevel"

GoneId == "b_gone"

\* katalogus.get_plugin_by_id_and_org_id
get_plugin_by_id_and_org_id(e, boefje_id, org) ==
    LET b1 == [exists |-> TRUE, id |-> BoefjeId, enabled |-> TRUE, scan_level |-> 2,
               interval |-> e.interval, run_on |-> {}, consumes |-> {"Hostname"},
               type |-> "boefje", version |-> CurrentVersion]
    IN  IF org \notin Orgs THEN NoPlugin
        ELSE IF boefje_id = BoefjeId THEN b1
        ELSE IF boefje_id = DisabledId
             THEN [b1 EXCEPT !.id = DisabledId, !.enabled = FALSE]
        ELSE IF boefje_id = NormalizerId
             THEN [b1 EXCEPT !.id = NormalizerId, !.type = "normalizer"]
        ELSE IF boefje_id = DnsBoefjeId
             THEN [b1 EXCEPT !.id = DnsBoefjeId, !.consumes = {"DNSZone"}]
        ELSE IF boefje_id = NoLevelId
             THEN [b1 EXCEPT !.id = NoLevelId, !.scan_level = None, !.consumes = {}]
        ELSE NoPlugin

\* octopoes: the objects of an organisation
Objects(e, org) ==
    IF org = "A"
    THEN {[primary_key |-> pk, object_type |-> "Hostname", is_none |-> FALSE,
           has_profile |-> TRUE, level |-> 2] : pk \in e.targets}
    ELSE {[primary_key |-> "T1", object_type |-> "Hostname", is_none |-> FALSE,
           has_profile |-> TRUE, level |-> e.levelB]}

\* katalogus.get_boefjes_by_type_and_org_id
get_boefjes_by_type_and_org_id(e, object_type, org) ==
    LET p == get_plugin_by_id_and_org_id(e, BoefjeId, org)
    IN  IF p.exists /\ object_type \in p.consumes THEN <<p>> ELSE <<>>

\* katalogus.get_configs(..., with_duplicates=True)[0].duplicates, as the
\* list of their organisation ids; <<>> when there are no configs.
get_configs(e, boefje_id, org) ==
    IF e.linked /\ org = "A" THEN <<"A", "B">> ELSE <<>>

\* octopoes.get_object_clients: the organisations among clients that hold
\* the reference, each with its object.
get_object_clients(e, reference, clients) ==
    {o \in clients : \E x \in Objects(e, o) : x.primary_key = reference}

ObjectOf(e, org, reference) ==
    CHOOSE x \in Objects(e, org) : x.primary_key = reference

(***************************************************************************)
(* Tasks                                                                   *)
(***************************************************************************)
QUEUED == "queued"

DISPATCHED == "dispatched"

RUNNING == "running"

COMPLETED == "completed"

FAILED == "failed"

CANCELLED == "cancelled"

\* BoefjeTask.hash: the fingerprint of scanner, target and organisation.
Hash(boefje_id, input_ooi, org) == <<boefje_id, input_ooi, org>>

Hashes ==
    {Hash(b, o, g) : b \in {BoefjeId, NoLevelId}, o \in {"T1", "T2", NoOOI}, g \in Orgs}

NoTaskDb == [found |-> FALSE, id |-> 0, status |-> "none", modified_at |-> None]

NoBytes == [found |-> FALSE, started |-> FALSE, ended_at |-> None]

\* task_store.get_latest_task_by_hash: the row created last for the hash.
get_latest_task_by_hash(ts, h) ==
    LET ids == {i \in DOMAIN ts : ts[i].hash = h}
    IN  IF ids = {} THEN NoTaskDb
        ELSE LET i == CHOOSE j \in ids : \A k \in ids : ts[k].seq <= ts[j].seq
             IN  [found |-> TRUE, id |-> i, status |-> ts[i].status,
                  modified_at |-> ts[i].modified_at]

\* task_store.update_task: the row is overwritten with the caller's copy.
update_task(ts, id, status, t) ==
    [ts EXCEPT ![id].status = status, ![id].modified_at = t]

(***************************************************************************)
(* The checks of the push pipeline                                         *)
(***************************************************************************)
\* Mutant: the scanner's interval is ignored.
GraceTimeout_default_only(e, boefje_id, org) == PqGracePeriod

\* The timeout of has_boefje_task_grace_period_passed, in seconds.
GraceTimeout(e, boefje_id, org) ==
    LET plugin == get_plugin_by_id_and_org_id(e, boefje_id, org)
    IN  IF plugin.exists /\ plugin.interval # None /\ plugin.interval > 0
        THEN plugin.interval * SecondsPerMinute
        ELSE PqGracePeriod

\* Mutant: the end of the last run in bytes is not looked at.
has_grace_period_passed_ignores_bytes(e, t, task_db, task_bytes, h) ==
    LET timeout == GraceTimeout(e, h[1], h[3])
    IN  IF task_db.found /\ t - task_db.modified_at < timeout THEN FALSE
        ELSE TRUE

has_boefje_task_grace_period_passed(e, t, task_db, task_bytes, h) ==
    LET timeout == GraceTimeout(e, h[1], h[3])
    IN  IF task_db.found /\ t - task_db.modified_at < timeout THEN FALSE
        ELSE IF task_bytes.found /\ task_bytes.ended_at # None
                /\ t - task_bytes.ended_at < timeout THEN FALSE
        ELSE TRUE

has_boefje_task_stalled(t, task_db) ==
    /\ task_db.found
    /\ task_db.status \in {DISPATCHED, RUNNING}
    /\ task_db.modified_at # None
    /\ t > task_db.modified_at + PqGracePeriod

\* Mutant: the error of a finished task without results is raised for
\* twice the global grace period after the last update of the task.
has_started_running_raises_late(t, task_db, task_bytes) ==
    IF task_db.found /\ task_db.status \notin {FAILED, COMPLETED} THEN "yes"
    ELSE IF /\ ~task_bytes.found
            /\ task_db.found
            /\ task_db.status \in {COMPLETED, FAILED}
            /\ task_db.modified_at # None
            /\ task_db.modified_at > t - 2 * PqGracePeriod
         THEN "raise"
    ELSE IF task_bytes.found /\ task_bytes.ended_at = None /\ task_bytes.started
         THEN "yes"
    ELSE "no"

\* Mutant: a run that bytes shows as started and not ended is not taken
\* for a running task.
has_started_running_ignores_bytes(t, task_db, task_bytes) ==
    IF task_db.found /\ task_db.status \notin {FAILED, COMPLETED} THEN "yes"
    ELSE IF /\ ~task_bytes.found
            /\ task_db.found
            /\ task_db.status \in {COMPLETED, FAILED}
            /\ task_db.modified_at # None
            /\ task_db.modified_at > t - PqGracePeriod
         THEN "raise"
    ELSE "no"

\* has_boefje_task_started_running: "yes", "no", or "raise" for the
\* RuntimeError of a finished task without results in bytes.
has_boefje_task_started_running(t, task_db, task_bytes) ==
    IF task_db.found /\ task_db.status \notin {FAILED, COMPLETED} THEN "yes"
    ELSE IF /\ ~task_bytes.found
            /\ task_db.found
            /\ task_db.status \in {COMPLETED, FAILED}
            /\ task_db.modified_at # None
            /\ task_db.modified_at > t - PqGracePeriod
         THEN "raise"
    ELSE IF task_bytes.found /\ task_bytes.ended_at = None /\ task_bytes.started
         THEN "yes"
    ELSE "no"

\* The organisations is_boefje_in_other_orgs builds a sibling task for, in
\* the order of the catalog's duplicates.
RECURSIVE SiblingOrgs(_, _, _, _)
SiblingOrgs(e, h, dups, k) ==
    IF k > Len(dups) THEN <<>>
    ELSE LET org == dups[k]
             rest == SiblingOrgs(e, h, dups, k + 1)
             orgs == get_object_clients(e, h[2], {dups[j] : j \in 1 .. Len(dups)})
             boefje == get_plugin_by_id_and_org_id(e, h[1], h[3])
         IN  IF org = h[3] THEN rest
             ELSE IF org \notin orgs THEN rest
             ELSE IF ~has_boefje_permission_to_run(boefje, ObjectOf(e, org, h[2]))
                  THEN rest
             ELSE <<org>> \o rest

is_boefje_in_other_orgs(e, h) ==
    IF h[2] = NoOOI THEN <<>>
    ELSE LET dups == get_configs(e, h[1], h[3])
         IN  IF dups = <<>> THEN <<>>
             ELSE IF get_object_clients(e, h[2], {dups[j] : j \in 1 .. Len(dups)}) = {}
                  THEN <<>>
             ELSE IF ~get_plugin_by_id_and_org_id(e, h[1], h[3]).exists THEN <<>>
             ELSE SiblingOrgs(e, h, dups, 1)

\* Mutant: the original task is tagged with its id whether or not a
\* sibling task was built.
Batch_always_keyed(e, h, first) ==
    LET sib == is_boefje_in_other_orgs(e, h)
    IN  [k \in 1 .. Len(sib) |->
            [id |-> first + k, data_id |-> first + k,
             hash |-> Hash(h[1], h[2], sib[k]), dedup |-> first]]
        \o <<[id |-> first, data_id |-> first, hash |-> h, dedup |-> first]>>

\* Mutant: a sibling task is tagged with its own id.
Batch_sibling_own_key(e, h, first) ==
    LET sib == is_boefje_in_other_orgs(e, h)
        key == IF sib = <<>> THEN None ELSE first
    IN  [k \in 1 .. Len(sib) |->
            [id |-> first + k, data_id |-> first + k,
             hash |-> Hash(h[1], h[2], sib[k]), dedup |-> first + k]]
        \o <<[id |-> first, data_id |-> first, hash |-> h, dedup |-> key]>>

\* The batch of push_boefje_task: the sibling tasks, then the task itself.
\* Ids are minted from first on; the task's own id is the first.
Batch(e, h, first) ==
    LET sib == is_boefje_in_other_orgs(e, h)
        key == IF sib = <<>> THEN None ELSE first
    IN  [k \in 1 .. Len(sib) |->
            [id |-> first + k, data_id |-> first + k,
             hash |-> Hash(h[1], h[2], sib[k]), dedup |-> first]]
        \o <<[id |-> first, data_id |-> first, hash |-> h, dedup |-> key]>>

(***************************************************************************)
(* The queue                                                               *)
(***************************************************************************)
\* Mutant: the fresh id is written to the task and not to its payload.
push_item_to_queue_keeps_payload_id(item, fresh) ==
    IF item.id # item.data_id
    THEN [item EXCEPT !.id = fresh]
    ELSE item

\* Mutant: a fresh id is minted whether or not the two ids agree.
push_item_to_queue_always_mints(item, fresh) ==
    [item EXCEPT !.id = fresh, !.data_id = fresh]

\* BoefjeScheduler.push_item_to_queue: the task id and the id in its payload
\* are made equal before the item goes to the queue.
push_item_to_queue(item, fresh) ==
    IF item.id # item.data_id
    THEN [item EXCEPT !.id = fresh, !.data_id = fresh]
    ELSE item

\* The rows on the queue: the tasks waiting to be popped.
QueuedIds(ts) == {i \in DOMAIN ts : ts[i].status = QUEUED}

\* PriorityQueue.push refuses (NotAllowedError) an item whose hash is on the
\* queue already, and any item when the queue is at capacity.
NotAllowed(ts, item) ==
    \/ \E i \in QueuedIds(ts) : ts[i].hash = item.hash
    \/ Cardinality(QueuedIds(ts)) >= PqMaxSize

\* The row PriorityQueue.push stores for an accepted item. pushed_id records
\* the id the item carried when it was handed to push_item_to_queue.
NewRow(ts, item, pushed, t) ==
    [hash |-> item.hash, status |-> QUEUED, created_at |-> t, modified_at |-> t,
     seq |-> Cardinality(DOMAIN ts) + 1, data_id |-> item.data_id,
     dedup |-> item.dedup, pushed_id |-> pushed]

\* pq_store.get_items filtered on data.input_ooi: the queued rows whose
\* payload references the primary key.

get_items(ts, primary_key) ==
    {i \in QueuedIds(ts) : ts[i].hash[2] = primary_key}

\* pq_store.pop_boefje: the sets of queued rows one pop may select: at most
\* limit rows that share scanner and organisation.
PopLimit == 2

pop_boefje(ts) ==
    {S \in SUBSET QueuedIds(ts) :
        /\ S # {}
        /\ Cardinality(S) <= PopLimit
        /\ \A i, j \in S : ts[i].hash[1] = ts[j].hash[1] /\ ts[i].hash[3] = ts[j].hash[3]}

\* pq_store.bulk_update_status
bulk_update_status(ts, ids, status, t) ==
    [i \in DOMAIN ts |->
        IF i \in ids THEN [ts[i] EXCEPT !.status = status, !.modified_at = t]
        ELSE ts[i]]

(***************************************************************************)
(* Threads                                                                 *)
(***************************************************************************)
WorkerList == <<"w1", "w2">>

Workers == {WorkerList[k] : k \in 1 .. Len(WorkerList)}

Poppers == {"r1", "r2"}

NoHash == <<>>

IdleWorker ==
    [pc |-> "idle", owner |-> Nobody, h |-> NoHash, task_db |-> NoTaskDb,
     task_bytes |-> NoBytes, batch |-> <<>>]

\* The listener thread: the candidates not yet taken by a worker of its
\* pool (todo), and in a DELETE the target, the items read from the queue
\* (all) and those still to cancel (items). skipped changes whenever a
\* mutation without a value is received and skipped.
IdleMut == [ooi |-> NoOOI, todo |-> <<>>, all |-> {}, items |-> {}, skipped |-> FALSE]

\* mutation.value of a mutation that carries no object.
NoValue ==
    [primary_key |-> NoOOI, object_type |-> "-", is_none |-> TRUE,
     has_profile |-> FALSE, level |-> None]

\* What a call to the catalog or the object graph made for an organisation
\* answers: a result, an ExternalServiceError, an HTTPStatusError with
\* status 400, or an HTTPStatusError with another status.
Answers == {"ok", "external", "http400", "http"}

NoFailure == [org \in Orgs |-> "ok"]

\* The answer of get_new_boefjes_by_org_id for every organisation.
NoCatalog == [org \in Orgs |-> <<>>]

IdleNb ==
    [todo |-> <<>>, new |-> {}, catalog |-> NoCatalog, fail |-> NoFailure,
     outcome |-> "none"]

\* The rescheduling thread: the schedule store (schedule id -> schedule)
\* and the candidates not yet taken by a worker of its pool.
NoSchedules == <<>>

\* due, timeouts and outcome describe the last invocation: the schedules
\* that were due, the organisations for which octopoes timed out, and how
\* the invocation went on ("done", or "timeout" for the return of line 314).
IdleRes ==
    [schedules |-> NoSchedules, todo |-> <<>>, due |-> {}, timeouts |-> {},
     query_failed |-> FALSE, malformed |-> {}, failing |-> {}, outcome |-> "none"]

IdlePop == [pc |-> "idle", items |-> {}]

NoPerm == [pc |-> "off"]

\* No call of calculate_deadline has been made.
NoDeadline == [pc |-> "off"]

Active(p) == {w \in Workers : wk[w].owner = p}

\* A pool hands a candidate to a free worker; which one does not matter.
FreeWorker(w) ==
    \E k \in 1 .. Len(WorkerList) :
        /\ WorkerList[k] = w
        /\ wk[w].pc = "idle"
        /\ \A j \in 1 .. k - 1 : wk[WorkerList[j]].pc # "idle"

\* Every running call may mint an id for itself and one per duplicate.
IdsLeft ==
    LET per == 1 + Cardinality({o \in Orgs : \E k \in 1 .. Len(get_configs(env, BoefjeId, "A")) :
                                    get_configs(env, BoefjeId, "A")[k] = o /\ o # "A"})
        busy == Cardinality({w \in Workers : wk[w].pc = "stalled"})
    IN  (nextId - 1) + per * (busy + 1) <= MaxIds

\* Mutant: the lookup does not stop at a stored task that is QUEUED.
LookupOutcome_skips_queued(h) ==
    LET task_db == get_latest_task_by_hash(tasks, h)
    IN  IF ~has_boefje_task_grace_period_passed(env, now, task_db, bytes[h], h)
        THEN "grace"
        ELSE "go"

(***************************************************************************)
(* push_boefje_task, run by a pool worker                                  *)
(***************************************************************************)
\* Lines 443-469: the latest task by hash, the last run in bytes, the
\* already-queued stop and the grace period stop.
LookupOutcome(h) ==
    LET task_db == get_latest_task_by_hash(tasks, h)
    IN  IF task_db.found /\ task_db.status = QUEUED THEN "queued"
        ELSE IF ~has_boefje_task_grace_period_passed(env, now, task_db, bytes[h], h)
             THEN "grace"
        ELSE "go"

PushLookup(w, p, h) ==
    wk' = IF LookupOutcome(h) = "go"
          THEN [wk EXCEPT ![w] =
                    [pc |-> "stalled", owner |-> p, h |-> h,
                     task_db |-> get_latest_task_by_hash(tasks, h),
                     task_bytes |-> bytes[h], batch |-> <<>>]]
          ELSE wk

\* Lines 471-512: the stalled task is failed, the still-running stop, the
\* RuntimeError of a finished task without results, the fan-out to other
\* organisations and the batch.
PushStalled(w) ==
    /\ wk[w].pc = "stalled"
    /\ LET me == wk[w]
           stalled == has_boefje_task_stalled(now, me.task_db)
           task_db == IF stalled THEN [me.task_db EXCEPT !.status = FAILED]
                      ELSE me.task_db
           running == has_boefje_task_started_running(now, task_db, me.task_bytes)
           batch == Batch(env, me.h, nextId)
       IN  /\ tasks' = IF stalled THEN update_task(tasks, me.task_db.id, FAILED, now)
                       ELSE tasks
           /\ IF running = "no"
              THEN /\ wk' = [wk EXCEPT ![w].pc = "push", ![w].batch = batch]
                   /\ nextId' = nextId + Len(batch)
              ELSE IF running = "raise"
              THEN /\ wk' = [wk EXCEPT ![w].pc = "raised"]
                   /\ UNCHANGED nextId
              ELSE /\ wk' = [wk EXCEPT ![w] = IdleWorker]
                   /\ UNCHANGED nextId
    /\ UNCHANGED <<res, now, bytes, lock, mut, nb, pop, env, perm, deadline>>

\* Mutant: the exception of one call ends the invocation: the candidates
\* not yet submitted are dropped and the other calls are abandoned.
log_future_exceptions_aborts(w) ==
    /\ wk[w].pc = "raised"
    /\ wk' = [v \in Workers |-> IF wk[v].owner = wk[w].owner /\ lock # v
                                THEN IdleWorker ELSE wk[v]]
    /\ mut' = IF wk[w].owner = "mut" THEN [mut EXCEPT !.todo = <<>>] ELSE mut
    /\ nb' = IF wk[w].owner = "nb" THEN [nb EXCEPT !.todo = <<>>] ELSE nb
    /\ res' = IF wk[w].owner = "res" THEN [res EXCEPT !.todo = <<>>] ELSE res
    /\ UNCHANGED <<now, tasks, bytes, lock, pop, env, nextId, perm, deadline>>

\* Lines 70-73: the call has ended in an exception; the done callback of
\* its future logs it, and the worker is free again.
log_future_exceptions(w) ==
    /\ wk[w].pc = "raised"
    /\ wk' = [wk EXCEPT ![w] = IdleWorker]
    /\ UNCHANGED <<now, tasks, bytes, lock, mut, nb, res, pop, env, nextId, perm, deadline>>

\* Mutant: a NotAllowedError ends the batch.
PushBatch_aborts(w) ==
    /\ wk[w].pc = "push"
    /\ lock \in {Nobody, w}
    /\ LET item == Head(wk[w].batch)
           task == push_item_to_queue(item, nextId)
           rest == IF NotAllowed(tasks, task) THEN <<>> ELSE Tail(wk[w].batch)
       IN  /\ tasks' = IF NotAllowed(tasks, task) THEN tasks
                       ELSE (task.id :> NewRow(tasks, task, item.id, now)) @@ tasks
           /\ nextId' = IF task.id = item.id THEN nextId ELSE nextId + 1
           /\ IF rest = <<>>
              THEN wk' = [wk EXCEPT ![w] = IdleWorker] /\ lock' = Nobody
              ELSE wk' = [wk EXCEPT ![w].batch = rest] /\ lock' = w
    /\ UNCHANGED <<res, now, bytes, mut, nb, pop, env, perm, deadline>>

\* Lines 514-542: under the queue lock every task of the batch is pushed; a
\* NotAllowedError skips the task. One step pushes one task; the first takes
\* the lock and the last releases it.
PushBatch(w) ==
    /\ wk[w].pc = "push"
    /\ lock \in {Nobody, w}
    /\ LET item == Head(wk[w].batch)
           task == push_item_to_queue(item, nextId)
           rest == Tail(wk[w].batch)
       IN  /\ tasks' = IF NotAllowed(tasks, task) THEN tasks
                       ELSE (task.id :> NewRow(tasks, task, item.id, now)) @@ tasks
           /\ nextId' = IF task.id = item.id THEN nextId ELSE nextId + 1
           /\ IF rest = <<>>
              THEN wk' = [wk EXCEPT ![w] = IdleWorker] /\ lock' = Nobody
              ELSE wk' = [wk EXCEPT ![w].batch = rest] /\ lock' = w
    /\ UNCHANGED <<res, now, bytes, mut, nb, pop, env, perm, deadline>>

\* A caller outside push_boefje_task hands an item to push_item_to_queue
\* (lines 544-564): the ids are made equal, then the queue takes the item
\* under its lock or refuses it. The caller chose the two ids of the item.
PushItem(item) ==
    /\ lock = Nobody
    /\ nextId <= MaxIds
    /\ item.id \notin DOMAIN tasks
    /\ LET task == push_item_to_queue(item, nextId)
       IN  /\ tasks' = IF NotAllowed(tasks, task) THEN tasks
                       ELSE (task.id :> NewRow(tasks, task, item.id, now)) @@ tasks
           /\ nextId' = IF task.id = item.id THEN nextId ELSE nextId + 1
    /\ UNCHANGED <<res, now, bytes, lock, wk, mut, nb, pop, env, perm, deadline>>

(***************************************************************************)
(* process_mutations                                                       *)
(***************************************************************************)
\* Mutant: every candidate is submitted with create_schedule true.
RECURSIVE MutationCandidates_always_schedules(_, _, _, _, _)
MutationCandidates_always_schedules(e, op, ooi, org, boefjes) ==
    IF boefjes = <<>> THEN <<>>
    ELSE LET boefje == Head(boefjes)
             rest == MutationCandidates_always_schedules(e, op, ooi, org, Tail(boefjes))
             run_task ==
                 IF boefje.run_on = {} THEN TRUE
                 ELSE IF op = CREATE THEN RunOnCreate \in boefje.run_on
                 ELSE IF op = UPDATE THEN RunOnUpdate \in boefje.run_on
                 ELSE FALSE
         IN  IF ~has_boefje_permission_to_run(boefje, ooi) THEN rest
             ELSE IF ~run_task THEN rest
             ELSE <<[h |-> Hash(boefje.id, ooi.primary_key, org),
                     create_schedule |-> TRUE]>> \o rest

\* Mutant: the run_on set of a scanner is not looked at.
RECURSIVE MutationCandidates_ignores_run_on(_, _, _, _, _)
MutationCandidates_ignores_run_on(e, op, ooi, org, boefjes) ==
    IF boefjes = <<>> THEN <<>>
    ELSE LET boefje == Head(boefjes)
             rest == MutationCandidates_ignores_run_on(e, op, ooi, org, Tail(boefjes))
         IN  IF ~has_boefje_permission_to_run(boefje, ooi) THEN rest
             ELSE <<[h |-> Hash(boefje.id, ooi.primary_key, org),
                     create_schedule |-> boefje.run_on = {}]>> \o rest

\* Lines 157-199: the candidates of a CREATE or UPDATE mutation, each with
\* its create_schedule flag.
RECURSIVE MutationCandidates(_, _, _, _, _)
MutationCandidates(e, op, ooi, org, boefjes) ==
    IF boefjes = <<>> THEN <<>>
    ELSE LET boefje == Head(boefjes)
             rest == MutationCandidates(e, op, ooi, org, Tail(boefjes))
             run_task ==
                 IF boefje.run_on = {} THEN TRUE
                 ELSE IF op = CREATE THEN RunOnCreate \in boefje.run_on
                 ELSE IF op = UPDATE THEN RunOnUpdate \in boefje.run_on
                 ELSE FALSE
         IN  IF ~has_boefje_permission_to_run(boefje, ooi) THEN rest
             ELSE IF ~run_task THEN rest
             ELSE <<[h |-> Hash(boefje.id, ooi.primary_key, org),
                     create_schedule |-> boefje.run_on = {}]>> \o rest

\* process_mutations has returned: the loop over the items is over, and the
\* executor is left, which waits for every submitted call.
MutIdle == mut.items = {} /\ mut.todo = <<>> /\ Active("mut") = {}

\* Mutant: a mutation without a value is handled like any other.
MutReceive_handles_no_value(op, org, ooi) ==
    /\ MutIdle
    /\ IF op = DELETE
       THEN LET items == get_items(tasks, ooi.primary_key)
            IN  mut' = [IdleMut EXCEPT !.ooi = ooi.primary_key, !.all = items,
                                       !.items = items]
       ELSE LET boefjes == get_boefjes_by_type_and_org_id(env, ooi.object_type, org)
                todo == MutationCandidates(env, op, ooi, org, boefjes)
            IN  mut' = [IdleMut EXCEPT !.todo = todo]
    /\ UNCHANGED <<res, now, tasks, bytes, lock, wk, nb, pop, env, nextId, perm, deadline>>

\* Mutant: DELETE reads the queue without the filter on input_ooi.
MutReceive_unfiltered(op, org, ooi) ==
    /\ MutIdle
    /\ IF op = DELETE
       THEN LET items == QueuedIds(tasks)
            IN  mut' = [IdleMut EXCEPT !.ooi = ooi.primary_key, !.all = items,
                                       !.items = items]
       ELSE LET boefjes == get_boefjes_by_type_and_org_id(env, ooi.object_type, org)
                todo == MutationCandidates(env, op, ooi, org, boefjes)
            IN  mut' = [IdleMut EXCEPT !.todo = todo]
    /\ UNCHANGED <<res, now, tasks, bytes, lock, wk, nb, pop, env, nextId, perm, deadline>>

\* The listener hands a mutation to process_mutations. A mutation without
\* a value is skipped (lines 123-128). DELETE reads the queued items of the
\* target; CREATE and UPDATE build the candidates and submit them to the
\* pool.
MutReceive(op, org, ooi) ==
    /\ MutIdle
    /\ IF ooi.is_none
       THEN mut' = [mut EXCEPT !.skipped = ~mut.skipped]
       ELSE IF op = DELETE
       THEN LET items == get_items(tasks, ooi.primary_key)
            IN  mut' = [IdleMut EXCEPT !.ooi = ooi.primary_key, !.all = items,
                                       !.items = items]
       ELSE LET boefjes == get_boefjes_by_type_and_org_id(env, ooi.object_type, org)
                todo == MutationCandidates(env, op, ooi, org, boefjes)
            IN  mut' = [IdleMut EXCEPT !.todo = todo]
    /\ UNCHANGED <<res, now, tasks, bytes, lock, wk, nb, pop, env, nextId, perm, deadline>>

\* Lines 151-206 for a CREATE or UPDATE mutation, with the answer of the
\* catalog as an input: the scanners it returns for the object type.
MutReceiveFrom(op, org, ooi, boefjes) ==
    /\ MutIdle
    /\ ~ooi.is_none
    /\ op \in {CREATE, UPDATE}
    /\ mut' = [IdleMut EXCEPT !.todo = MutationCandidates(env, op, ooi, org, boefjes)]
    /\ UNCHANGED <<res, now, tasks, bytes, lock, wk, nb, pop, env, nextId, perm, deadline>>

\* Lines 141-149: one turn of the loop over the items: get_task, then
\* update_task with status CANCELLED. The handler returns after the last.
MutCancel ==
    /\ mut.items # {}
    /\ LET i == CHOOSE j \in mut.items : \A k \in mut.items : j <= k
       IN  /\ tasks' = update_task(tasks, i, CANCELLED, now)
           /\ mut' = [mut EXCEPT !.items = mut.items \ {i}]
    /\ UNCHANGED <<res, now, bytes, lock, wk, nb, pop, env, nextId, perm, deadline>>

\* Lines 201-206: a worker of the pool takes the next candidate.
MutSubmit(w) ==
    /\ mut.todo # <<>>
    /\ FreeWorker(w)
    /\ IdsLeft
    /\ PushLookup(w, "mut", Head(mut.todo).h)
    /\ mut' = [mut EXCEPT !.todo = Tail(mut.todo)]
    /\ UNCHANGED <<res, now, tasks, bytes, lock, nb, pop, env, nextId, perm, deadline>>

(***************************************************************************)
(* process_new_boefjes                                                     *)
(***************************************************************************)
TargetList == <<"T1", "T2">>

\* octopoes.get_objects_by_object_types(org, types, levels), in a fixed order
get_objects_by_object_types(e, org, types, levels) ==
    LET hit(pk) == \E x \in Objects(e, org) :
                        /\ x.primary_key = pk
                        /\ x.object_type \in types
                        /\ x.has_profile
                        /\ x.level \in levels
    IN  SelectSeq(TargetList, hit)

\* Mutant: the targets at the minimum level of the scanner are left out.
get_oois_for_boefje_above_level(e, boefje, org) ==
    IF boefje.enabled = FALSE THEN <<>>
    ELSE get_objects_by_object_types(e, org, boefje.consumes, boefje.scan_level + 1 .. 4)

\* get_oois_for_boefje: the targets of the scanner's types at its level or above
get_oois_for_boefje(e, boefje, org) ==
    IF boefje.enabled = FALSE THEN <<>>
    ELSE get_objects_by_object_types(e, org, boefje.consumes, boefje.scan_level .. 4)

\* Lines 225-264: the candidates of the organisations whose scanner is new.
RECURSIVE NewBoefjeCandidates(_, _, _)
NewBoefjeCandidates(e, new, k) ==
    IF k > Len(OrgList) THEN <<>>
    ELSE LET org == OrgList[k]
             boefje == get_plugin_by_id_and_org_id(e, BoefjeId, org)
             oois == get_oois_for_boefje(e, boefje, org)
             rest == NewBoefjeCandidates(e, new, k + 1)
         IN  IF org \notin new \/ ~boefje.exists THEN rest
             ELSE [j \in 1 .. Len(oois) |->
                      [h |-> Hash(boefje.id, oois[j], org), create_schedule |-> TRUE]]
                  \o rest

\* Lines 225-264 with the answers of the services: an ExternalServiceError
\* for an organisation is caught at line 257 and the loop goes on with the
\* next organisation; an HTTPStatusError from get_oois_for_boefje is caught
\* at line 243, and is logged when its status is 400 and raised again
\* otherwise. HTTPStatusError is not an ExternalServiceError, so the raised
\* error leaves process_new_boefjes before line 266.
RECURSIVE NewBoefjeLoop(_, _, _, _)
NewBoefjeLoop(e, new, fail, k) ==
    IF k > Len(OrgList) THEN [boefje_tasks |-> <<>>, raised |-> FALSE]
    ELSE LET org == OrgList[k]
             boefje == get_plugin_by_id_and_org_id(e, BoefjeId, org)
             rest == NewBoefjeLoop(e, new, fail, k + 1)
         IN  IF fail[org] = "external" \/ org \notin new \/ ~boefje.exists THEN rest
             ELSE IF boefje.enabled = FALSE THEN rest
             ELSE IF fail[org] = "http400" THEN rest
             ELSE IF fail[org] = "http"
                  THEN [boefje_tasks |-> <<>>, raised |-> TRUE]
             ELSE [boefje_tasks |->
                       NewBoefjeCandidates(e, {org}, 1) \o rest.boefje_tasks,
                   raised |-> rest.raised]

\* One run of the loop with the answers fail of the services; new is the
\* set of organisations for which the catalog reports the scanner as new.
\* The executor of line 266 is reached when no error left the loop.
NbRun(new, fail) ==
    /\ nb.todo = <<>>
    /\ Active("nb") = {}
    /\ LET run == NewBoefjeLoop(env, new, fail, 1)
       IN  nb' = [todo |-> IF run.raised THEN <<>> ELSE run.boefje_tasks,
                  new |-> new,
                  catalog |-> [org \in Orgs |->
                                  LET boefje == get_plugin_by_id_and_org_id(env, BoefjeId, org)
                                  IN  IF org \in new /\ boefje.exists
                                      THEN <<boefje>> ELSE <<>>],
                  fail |-> fail,
                  outcome |-> IF run.raised THEN "raised" ELSE "done"]
    /\ UNCHANGED <<res, now, tasks, bytes, lock, wk, mut, pop, env, nextId, perm, deadline>>

\* A run of the loop in which every service answers.
NbStart(new) == NbRun(new, NoFailure)

\* Lines 232-241: the candidates of the new scanners of one organisation,
\* scanner by scanner and target by target.
RECURSIVE BoefjeTasksOf(_, _, _)
BoefjeTasksOf(e, org, new_boefjes) ==
    IF new_boefjes = <<>> THEN <<>>
    ELSE LET boefje == Head(new_boefjes)
             oois == get_oois_for_boefje(e, boefje, org)
         IN  [j \in 1 .. Len(oois) |->
                 [h |-> Hash(boefje.id, oois[j], org), create_schedule |-> TRUE]]
             \o BoefjeTasksOf(e, org, Tail(new_boefjes))

\* Lines 225-264: the loop over the organisations.
RECURSIVE BoefjeTasks(_, _, _)
BoefjeTasks(e, catalog, k) ==
    IF k > Len(OrgList) THEN <<>>
    ELSE BoefjeTasksOf(e, OrgList[k], catalog[OrgList[k]])
         \o BoefjeTasks(e, catalog, k + 1)

\* One run of the loop in which every service answers, with the answers of
\* get_new_boefjes_by_org_id as an input: the new scanners of every
\* organisation.
NbRunFrom(catalog) ==
    /\ nb.todo = <<>>
    /\ Active("nb") = {}
    /\ nb' = [todo |-> BoefjeTasks(env, catalog, 1),
              new |-> {org \in Orgs : catalog[org] # <<>>},
              catalog |-> catalog,
              fail |-> NoFailure,
              outcome |-> "done"]
    /\ UNCHANGED <<res, now, tasks, bytes, lock, wk, mut, pop, env, nextId, perm, deadline>>

\* Lines 266-271: a worker of the pool takes the next candidate.
NbSubmit(w) ==
    /\ nb.todo # <<>>
    /\ FreeWorker(w)
    /\ IdsLeft
    /\ PushLookup(w, "nb", Head(nb.todo).h)
    /\ nb' = [nb EXCEPT !.todo = Tail(nb.todo)]
    /\ UNCHANGED <<res, now, tasks, bytes, lock, mut, pop, env, nextId, perm, deadline>>

(***************************************************************************)
(* process_rescheduling                                                    *)
(***************************************************************************)
\* octopoes.get_objects(org, references)
get_objects(e, org, references) ==
    {x \in Objects(e, org) : x.primary_key \in references}

\* Lines 293-298: the organisations of the due schedules that reference a
\* target, each with the references to fetch.
OoiOrgs(schedules, due) ==
    {schedules[i].h[3] : i \in {j \in due : schedules[j].h[2] # NoOOI}}

OoiRefs(schedules, due, org) ==
    {schedules[i].h[2] : i \in {j \in due : schedules[j].h[3] = org
                                            /\ schedules[j].h[2] # NoOOI}}

\* Mutant: a schedule that passes all checks is disabled.
ScheduleVerdict_disables_passing(e, h) ==
    LET plugin == get_plugin_by_id_and_org_id(e, h[1], h[3])
        found == get_objects(e, h[3], {h[2]})
    IN  IF ~plugin.exists THEN "disable"
        ELSE IF ~plugin.enabled THEN "disable"
        ELSE IF plugin.type # "boefje" THEN "skip"
        ELSE IF h[2] # NoOOI
             THEN IF found = {} THEN "disable"
                  ELSE LET ooi == CHOOSE x \in found : TRUE
                       IN  IF ooi.object_type \notin plugin.consumes THEN "disable"
                           ELSE IF ~has_boefje_permission_to_run(plugin, ooi)
                                THEN "disable"
                           ELSE "disable"
        ELSE "disable"

\* Mutant: a schedule of a plugin that is not a boefje is disabled.
ScheduleVerdict_disables_wrong_type(e, h) ==
    LET plugin == get_plugin_by_id_and_org_id(e, h[1], h[3])
        found == get_objects(e, h[3], {h[2]})
    IN  IF ~plugin.exists THEN "disable"
        ELSE IF ~plugin.enabled THEN "disable"
        ELSE IF plugin.type # "boefje" THEN "disable"
        ELSE IF h[2] # NoOOI
             THEN IF found = {} THEN "disable"
                  ELSE LET ooi == CHOOSE x \in found : TRUE
                       IN  IF ooi.object_type \notin plugin.consumes THEN "disable"
                           ELSE IF ~has_boefje_permission_to_run(plugin, ooi)
                                THEN "disable"
                           ELSE "submit"
        ELSE "submit"

\* Lines 318-421: what the loop does with one due schedule: "disable",
\* "skip" or "submit".
ScheduleVerdict(e, h) ==
    LET plugin == get_plugin_by_id_and_org_id(e, h[1], h[3])
        found == get_objects(e, h[3], {h[2]})
    IN  IF ~plugin.exists THEN "disable"
        ELSE IF ~plugin.enabled THEN "disable"
        ELSE IF plugin.type # "boefje" THEN "skip"
        ELSE IF h[2] # NoOOI
             THEN IF found = {} THEN "disable"
                  ELSE LET ooi == CHOOSE x \in found : TRUE
                       IN  IF ooi.object_type \notin plugin.consumes THEN "disable"
                           ELSE IF ~has_boefje_permission_to_run(plugin, ooi)
                                THEN "disable"
                           ELSE "submit"
        ELSE "submit"

\* Mutant: the candidate is the payload stored in the schedule.
new_boefje_task_from_payload(schedule, plugin, found) ==
    [h |-> Hash(schedule.data.boefje.id, schedule.data.input_ooi,
                schedule.data.organization),
     boefje |-> schedule.data.boefje,
     create_schedule |-> TRUE]

\* Lines 417-421: the candidate of a schedule that passed the checks, built
\* from the catalog entry and the target fetched in this run (found is
\* empty for a schedule without a target) and the organisation of the
\* schedule.
new_boefje_task(schedule, plugin, found) ==
    [h |-> Hash(plugin.id,
                IF found = {} THEN NoOOI ELSE (CHOOSE x \in found : TRUE).primary_key,
                schedule.organisation),
     boefje |-> [id |-> plugin.id, version |-> plugin.version],
     create_schedule |-> TRUE]

\* Lines 316-434: the candidates of the due schedules, in the order of the
\* schedules.
RECURSIVE ReschedulingCandidates(_, _, _, _)
ReschedulingCandidates(e, schedules, due, k) ==
    IF k > Len(schedules) THEN <<>>
    ELSE LET rest == ReschedulingCandidates(e, schedules, due, k + 1)
             data == schedules[k].data
             plugin == get_plugin_by_id_and_org_id(e, data.boefje.id,
                                                   schedules[k].organisation)
             found == IF data.input_ooi = NoOOI THEN {}
                      ELSE get_objects(e, data.organization, {data.input_ooi})
         IN  IF k \in due /\ ScheduleVerdict(e, schedules[k].h) = "submit"
             THEN <<new_boefje_task(schedules[k], plugin, found)>> \o rest
             ELSE rest

\* The loop of line 316 makes a call that can fail for schedule k of the
\* due schedules: the catalog lookup, unless the plugin of the schedule is
\* in the cache of the loop already, or the update of a schedule that is
\* disabled.
CallsMade(schedules, due, k) ==
    \/ ~\E j \in due : /\ j < k
                       /\ schedules[j].h[1] = schedules[k].h[1]
                       /\ schedules[j].h[3] = schedules[k].h[3]
    \/ ScheduleVerdict(env, schedules[k].h) = "disable"

\* One run of the loop. due is what get_due_schedules returns, a set of
\* enabled schedules; timeouts are the organisations for which get_objects
\* raises ReadTimeout during this run. A ReadTimeout returns from the
\* function (line 314) before any schedule is looked at.
\* query_fails: get_due_schedules raises StorageError; it is logged (line
\* 283) and the function goes on to line 293, where the local variable
\* schedules was never assigned: an UnboundLocalError leaves the function.
\* malformed: the due schedules whose payload model_validate rejects; the
\* first validation is made at line 294, outside any try, so the error
\* leaves the function before a schedule is looked at.
\* failing: the due schedules for which the catalog lookup or the schedule
\* update raises inside the try of line 317. The handler of line 423 names
\* ValidationError, which the module does not import, so evaluating the
\* except clause raises NameError: the loop ends at the first failing
\* schedule, after the schedules before it were checked and submitted.
ResRun(due, timeouts, query_fails, malformed, failing) ==
    /\ res.todo = <<>>
    /\ Active("res") = {}
    /\ IF query_fails THEN due = {} ELSE due # {}
    /\ due \subseteq {i \in 1 .. Len(res.schedules) : res.schedules[i].enabled}
    /\ malformed \subseteq due
    /\ failing \subseteq {k \in due : CallsMade(res.schedules, due, k)}
    /\ LET ghost == [res EXCEPT !.due = due, !.timeouts = timeouts,
                                !.query_failed = query_fails,
                                !.malformed = malformed, !.failing = failing]
           reached == {k \in due : \A f \in failing : k < f}
       IN  IF query_fails \/ malformed # {}
           THEN res' = [ghost EXCEPT !.outcome = "raised"]
           ELSE IF OoiOrgs(res.schedules, due) \cap timeouts # {}
           THEN res' = [ghost EXCEPT !.outcome = "timeout"]
           ELSE res' = [ghost EXCEPT
                          !.schedules =
                              [i \in 1 .. Len(res.schedules) |->
                                  IF /\ i \in reached
                                     /\ ScheduleVerdict(env, res.schedules[i].h) = "disable"
                                  THEN [res.schedules[i] EXCEPT !.enabled = FALSE]
                                  ELSE res.schedules[i]],
                          !.todo = ReschedulingCandidates(env, res.schedules, reached, 1),
                          !.outcome = IF failing = {} THEN "done" ELSE "raised"]
    /\ UNCHANGED <<now, tasks, bytes, lock, wk, mut, nb, pop, env, nextId, perm, deadline>>

\* A run of the loop in which the stores and the catalog answer and every
\* payload is well formed.
ResStart(due, timeouts) == ResRun(due, timeouts, FALSE, {}, {})

\* Lines 431-434: a worker of the pool takes the next candidate.
ResSubmit(w) ==
    /\ res.todo # <<>>
    /\ FreeWorker(w)
    /\ IdsLeft
    /\ PushLookup(w, "res", Head(res.todo).h)
    /\ res' = [res EXCEPT !.todo = Tail(res.todo)]
    /\ UNCHANGED <<now, tasks, bytes, lock, mut, nb, pop, env, nextId, perm, deadline>>

(***************************************************************************)
(* BoefjePQ.pop and the task runner                                        *)
(***************************************************************************)
\* Mutant: pop without with_lock.
PopSelect_unlocked(r, items) ==
    /\ pop[r].pc = "idle"
    /\ items \in pop_boefje(tasks)
    /\ lock' = r
    /\ pop' = [pop EXCEPT ![r] = [pc |-> "update", items |-> items]]
    /\ UNCHANGED <<res, now, tasks, bytes, wk, mut, nb, env, nextId, perm, deadline>>

\* Line 33, under the lock of with_lock: the items are selected.
PopSelect(r, items) ==
    /\ pop[r].pc = "idle"
    /\ lock = Nobody
    /\ items \in pop_boefje(tasks)
    /\ lock' = r
    /\ pop' = [pop EXCEPT ![r] = [pc |-> "update", items |-> items]]
    /\ UNCHANGED <<res, now, tasks, bytes, wk, mut, nb, env, nextId, perm, deadline>>

\* Lines 37-39: the items are set to DISPATCHED and returned; the lock is
\* released.
PopUpdate(r) ==
    /\ pop[r].pc = "update"
    /\ tasks' = bulk_update_status(tasks, pop[r].items, DISPATCHED, now)
    /\ lock' = Nobody
    /\ pop' = [pop EXCEPT ![r] = IdlePop]
    /\ UNCHANGED <<res, now, bytes, wk, mut, nb, env, nextId, perm, deadline>>

\* The task runner starts a dispatched task; its run may show in bytes.
RunnerStart(i, saved) ==
    /\ i \in DOMAIN tasks
    /\ tasks[i].status = DISPATCHED
    /\ tasks' = update_task(tasks, i, RUNNING, now)
    /\ bytes' = IF saved
                THEN [bytes EXCEPT ![tasks[i].hash] =
                        [found |-> TRUE, started |-> TRUE, ended_at |-> None]]
                ELSE bytes
    /\ UNCHANGED <<res, now, lock, wk, mut, nb, pop, env, nextId, perm, deadline>>

\* The task runner finishes a running task; its run may be saved in bytes.
RunnerFinish(i, status, saved) ==
    /\ i \in DOMAIN tasks
    /\ tasks[i].status = RUNNING
    /\ tasks' = update_task(tasks, i, status, now)
    /\ bytes' = IF saved
                THEN [bytes EXCEPT ![tasks[i].hash] =
                        [found |-> TRUE, started |-> TRUE, ended_at |-> now]]
                ELSE bytes
    /\ UNCHANGED <<res, now, lock, wk, mut, nb, pop, env, nextId, perm, deadline>>

\* The task runner saves the results of a finished task in bytes some time
\* after it reported the task finished.
RunnerSaveLate(i) ==
    /\ i \in DOMAIN tasks
    /\ tasks[i].status \in {COMPLETED, FAILED}
    /\ ~bytes[tasks[i].hash].found
    /\ now > tasks[i].modified_at
    /\ bytes' = [bytes EXCEPT ![tasks[i].hash] =
                    [found |-> TRUE, started |-> TRUE, ended_at |-> now]]
    /\ UNCHANGED <<res, now, tasks, lock, wk, mut, nb, pop, env, nextId, perm, deadline>>

\* Time passes.
TickClock ==
    /\ now + Tick <= MaxTime
    /\ now' = now + Tick
    /\ UNCHANGED <<res, tasks, bytes, lock, wk, mut, nb, pop, env, nextId, perm, deadline>>

(***************************************************************************)
(* The scheduler                                                           *)
(***************************************************************************)
EmptyTasks == [i \in {} |-> 0]

InitIn(envs) ==
    /\ now = 0
    /\ tasks = EmptyTasks
    /\ bytes = [h \in Hashes |-> NoBytes]
    /\ lock = Nobody
    /\ wk = [w \in Workers |-> IdleWorker]
    /\ mut = IdleMut
    /\ nb = IdleNb
    /\ res = IdleRes
    /\ pop = [r \in Poppers |-> IdlePop]
    /\ env \in envs
    /\ nextId = 1
    /\ perm = NoPerm
    /\ deadline = NoDeadline

\* The mutation stream delivers a message of one of the organisations.
Mutation(ops, orgs) ==
    \E op \in ops, org \in orgs : \E ooi \in Objects(env, org) : MutReceive(op, org, ooi)

\* The timer starts a run of process_new_boefjes.
NewBoefjes(orgs) == \E new \in SUBSET orgs : new # {} /\ NbStart(new)

\* The timer starts a run of process_new_boefjes, and the services answer
\* or fail.
NewBoefjesFailing(orgs) ==
    \E new \in SUBSET orgs, fail \in [Orgs -> Answers] : new # {} /\ NbRun(new, fail)

\* The timer starts a run of process_rescheduling.
Rescheduling ==
    \E due \in SUBSET (1 .. Len(res.schedules)), timeouts \in SUBSET Orgs :
        ResStart(due, timeouts)

\* The timer starts a run of process_rescheduling, and the schedule store
\* and the catalog answer or fail.
ReschedulingFailing ==
    \E due \in SUBSET (1 .. Len(res.schedules)), query_fails \in BOOLEAN :
        \E malformed \in SUBSET due, failing \in SUBSET due :
            ResRun(due, {}, query_fails, malformed, failing)

Pop == \E r \in Poppers : \E items \in SUBSET DOMAIN tasks : PopSelect(r, items)

Popped == \E r \in Poppers : PopUpdate(r)

Started == \E i \in DOMAIN tasks, saved \in BOOLEAN : RunnerStart(i, saved)

Finished ==
    \E i \in DOMAIN tasks, status \in {COMPLETED, FAILED}, saved \in BOOLEAN :
        RunnerFinish(i, status, saved)

SavedLate == \E i \in DOMAIN tasks : RunnerSaveLate(i)

Init == InitIn(Envs)

Next ==
    \/ Mutation({CREATE, UPDATE, DELETE}, Orgs)
    \/ MutCancel
    \/ \E w \in Workers : MutSubmit(w)
    \/ NewBoefjesFailing(Orgs)
    \/ \E w \in Workers : NbSubmit(w)
    \/ Rescheduling
    \/ \E w \in Workers : ResSubmit(w)
    \/ \E w \in Workers : PushStalled(w)
    \/ \E w \in Workers : PushBatch(w)
    \/ \E w \in Workers : log_future_exceptions(w)
    \/ Pop
    \/ Popped
    \/ Started
    \/ Finished
    \/ SavedLate
    \/ TickClock

Spec == Init /\ [][Next]_vars

\* Two producers of the same fingerprint, the task runner and no clock.
InitRace ==
    InitIn({[interval |-> None, linked |-> FALSE, levelB |-> 2, targets |-> {"T1"}]})

NextRace ==
    \/ Mutation({CREATE, UPDATE, DELETE}, {"A"})
    \/ MutCancel
    \/ \E w \in Workers : MutSubmit(w)
    \/ NewBoefjes({"A"})
    \/ \E w \in Workers : NbSubmit(w)
    \/ \E w \in Workers : PushStalled(w)
    \/ \E w \in Workers : PushBatch(w)
    \/ Pop
    \/ Popped
    \/ Started
    \/ Finished

SpecRace == InitRace /\ [][NextRace]_vars

(***************************************************************************)
(* The permission evaluator on its own: every combination of enabled flag, *)
(* scanner level, target, profile and target level is evaluated once.      *)
(***************************************************************************)
InitPerm ==
    /\ now = 0
    /\ tasks = EmptyTasks
    /\ bytes = [h \in Hashes |-> NoBytes]
    /\ lock = Nobody
    /\ wk = [w \in Workers |-> IdleWorker]
    /\ mut = IdleMut
    /\ nb = IdleNb
    /\ res = IdleRes
    /\ pop = [r \in Poppers |-> IdlePop]
    /\ env = [interval |-> None, linked |-> FALSE, levelB |-> 2, targets |-> {"T1"}]
    /\ nextId = 1
    /\ perm \in [pc : {"in"}, boefje : PermPlugins, ooi : PermOOIs, result : {FALSE}]
    /\ deadline = NoDeadline

PermEval ==
    /\ perm.pc = "in"
    /\ perm' = [perm EXCEPT !.pc = "out",
                   !.result = has_boefje_permission_to_run(perm.boefje, perm.ooi)]
    /\ UNCHANGED sysvars

NextPerm == PermEval

SpecPerm == InitPerm /\ [][NextPerm]_vars

\* The decision table of the permission evaluator: the condition of each
\* row, and the answer of each row.
RowHolds(k, boefje, ooi) ==
    CASE k = 1 -> ~boefje.enabled
      [] k = 2 -> boefje.scan_level \notin Levels
      [] k = 3 -> ooi.is_none
      [] k = 4 -> ~ooi.has_profile
      [] k = 5 -> ooi.level \notin Levels
      [] k = 6 -> boefje.scan_level > ooi.level
      [] OTHER -> TRUE

RowAnswer == <<FALSE, FALSE, TRUE, FALSE, FALSE, FALSE, TRUE>>

FirstRow(boefje, ooi) ==
    CHOOSE k \in 1 .. 7 :
        RowHolds(k, boefje, ooi) /\ \A j \in 1 .. k - 1 : ~RowHolds(j, boefje, ooi)

\* C3: the permission evaluator answers as the first matching row of the
\* seven-row decision table, for every combination of enabled flag, scanner
\* level, target, profile and target level.
C3_DecisionTable ==
    perm.pc = "out" => perm.result = RowAnswer[FirstRow(perm.boefje, perm.ooi)]

\* A scanner of level 2 was evaluated against a target of level 2 and may run.
C3_Witness ==
    /\ perm.pc = "out"
    /\ perm.boefje = [enabled |-> TRUE, scan_level |-> 2]
    /\ perm.ooi = [is_none |-> FALSE, has_profile |-> TRUE, level |-> 2]
    /\ perm.result = TRUE

\* C4 as stated: for a scanner with a level, the evaluator answers true if
\* and only if the target exists, has a profile with a level, the scanner's
\* level is at most that level, and the scanner is enabled.
C4_IffTargetExists ==
    (perm.pc = "out" /\ perm.boefje.scan_level \in Levels) =>
        (perm.result <=>
            /\ perm.ooi.level \in Levels
            /\ perm.boefje.scan_level <= perm.ooi.level
            /\ ~perm.ooi.is_none
            /\ perm.ooi.has_profile
            /\ perm.boefje.enabled)

\* C4 amended: the evaluator answers true if and only if the scanner is
\* enabled and has a level, and the target is absent or has a profile with
\* a level that is at least the scanner's level.
C4_IffOrTargetAbsent ==
    perm.pc = "out" =>
        (perm.result <=>
            /\ perm.boefje.enabled
            /\ perm.boefje.scan_level \in Levels
            /\ \/ perm.ooi.is_none
               \/ /\ perm.ooi.has_profile
                  /\ perm.ooi.level \in Levels
                  /\ perm.boefje.scan_level <= perm.ooi.level)

\* An enabled scanner with a level was evaluated without a target and may run.
C4_Witness ==
    /\ perm.pc = "out"
    /\ perm.ooi.is_none
    /\ perm.boefje.enabled
    /\ perm.boefje.scan_level \in Levels
    /\ perm.result = TRUE

(***************************************************************************)
(* Claims about concurrent producers and the task runner                   *)
(***************************************************************************)
InFlight == {QUEUED, DISPATCHED}

Terminal == {COMPLETED, FAILED, CANCELLED}

\* C1: at most one task per content hash has status QUEUED or DISPATCHED.
C1_AtMostOneInFlight ==
    \A i, j \in DOMAIN tasks :
        (i # j /\ tasks[i].hash = tasks[j].hash)
            => ~(tasks[i].status \in InFlight /\ tasks[j].status \in InFlight)

\* C2: the lookup of the latest task by hash and the push are not
\* interleaved by another producer of the same fingerprint: when a call
\* pushes, the latest task of its hash is still the one it looked up, so of
\* N concurrent calls one queues a task and the others stop at the lookup.
C2_LookupAndPushAtomic ==
    \A w \in Workers :
        wk[w].pc = "push" =>
            LET latest == get_latest_task_by_hash(tasks, wk[w].h)
            IN  latest.found = wk[w].task_db.found /\ latest.id = wk[w].task_db.id

\* C8: no scheduler action (the cancellation of a DELETE mutation, the
\* stalled recovery of push_boefje_task) changes the status of a task that
\* is COMPLETED, FAILED or CANCELLED.
C8_TerminalStays ==
    [][(\/ mut'.items # mut.items
        \/ \E w \in Workers : wk[w].pc = "stalled" /\ wk'[w].pc # "stalled")
        => \A i \in DOMAIN tasks :
              tasks[i].status \in Terminal => tasks'[i].status = tasks[i].status]_vars

InitDelete ==
    InitIn({[interval |-> None, linked |-> FALSE, levelB |-> 2,
             targets |-> {"T1", "T2"}]})

NextDelete ==
    \/ Mutation({CREATE, DELETE}, Orgs)
    \/ MutCancel
    \/ \E w \in Workers : MutSubmit(w)
    \/ \E w \in Workers : PushStalled(w)
    \/ \E w \in Workers : PushBatch(w)
    \/ Pop
    \/ Popped

SpecDelete == InitDelete /\ [][NextDelete]_vars

\* The handler of a DELETE mutation has returned.
DeleteDone == mut.ooi # NoOOI /\ mut.items = {}

\* C5: a DELETE mutation for target T cancels all and only the tasks that
\* reference T: the handler reads exactly the queued tasks whose input_ooi
\* is T and cancels them one by one until none is left; a step of its loop
\* sets the task it takes to CANCELLED and changes the status of no task
\* that references another target.
C5_DeleteCancelsAllAndOnly ==
    [][/\ (mut'.all # mut.all \/ mut'.ooi # mut.ooi) =>
            (mut'.ooi # NoOOI =>
                /\ mut'.all = {i \in DOMAIN tasks :
                                  /\ tasks[i].status = QUEUED
                                  /\ tasks[i].hash[2] = mut'.ooi}
                /\ mut'.items = mut'.all)
       /\ (mut.items # {} /\ mut'.items # mut.items) =>
            /\ mut'.all = mut.all
            /\ mut'.items \subseteq mut.items
            /\ \A i \in mut.items \ mut'.items : tasks'[i].status = CANCELLED
            /\ \A i \in DOMAIN tasks :
                  tasks'[i].status # tasks[i].status =>
                      /\ i \in mut.all
                      /\ tasks[i].hash[2] = mut.ooi
                      /\ tasks'[i].status = CANCELLED]_vars

\* A DELETE for T1 has been handled: the task of T1 is CANCELLED and the
\* task of T2 is still on the queue.
C5_Witness ==
    /\ DeleteDone
    /\ mut.ooi = "T1"
    /\ \E i \in mut.all : tasks[i].hash[2] = "T1" /\ tasks[i].status = CANCELLED
    /\ \E j \in DOMAIN tasks : tasks[j].hash[2] = "T2" /\ tasks[j].status = QUEUED

(***************************************************************************)
(* Time: one candidate submitted again and again by the listener, the task *)
(* runner and the clock.                                                   *)
(***************************************************************************)
InitTime ==
    InitIn([interval : {None, 0, 1}, linked : {FALSE}, levelB : {2},
            targets : {{"T1"}}])

NextTime ==
    \/ Mutation({CREATE, UPDATE}, {"A"})
    \/ \E w \in Workers : MutSubmit(w)
    \/ \E w \in Workers : PushStalled(w)
    \/ \E w \in Workers : PushBatch(w)
    \/ \E w \in Workers : log_future_exceptions(w)
    \/ Pop
    \/ Popped
    \/ Started
    \/ Finished
    \/ TickClock

SpecTime == InitTime /\ [][NextTime]_vars

\* The scanner has a configured interval; Interval is its length in seconds.
ConfiguredInterval == env.interval # None /\ env.interval > 0

Interval == env.interval * SecondsPerMinute

\* The listener's pool starts a call of push_boefje_task in this step.
Submitting == mut.todo # <<>> /\ mut'.todo # mut.todo

IsFinished(status) == status \in {COMPLETED, FAILED}

\* C6: for a scanner with a configured interval, a submission within the
\* interval of the previous task of the candidate stops and adds nothing,
\* so no two tasks of a candidate are created less than the interval apart
\* and at most one is queued; a submission made when the previous task was
\* dispatched and has finished with its run recorded, the interval having
\* elapsed since, goes through every check and ends with a second task of
\* the candidate QUEUED.
C6_GracePeriod ==
    /\ [](ConfiguredInterval =>
            \A i, j \in DOMAIN tasks :
                (i # j /\ tasks[i].hash = tasks[j].hash) =>
                    /\ \/ tasks[i].created_at - tasks[j].created_at >= Interval
                       \/ tasks[j].created_at - tasks[i].created_at >= Interval
                    /\ ~(tasks[i].status = QUEUED /\ tasks[j].status = QUEUED))
    /\ [][ConfiguredInterval =>
            /\ Submitting =>
                 LET h == Head(mut.todo).h
                     latest == get_latest_task_by_hash(tasks, h)
                 IN  /\ (latest.found /\ now - tasks[latest.id].created_at < Interval)
                            => (wk' = wk /\ tasks' = tasks)
                     /\ (/\ latest.found
                         /\ IsFinished(latest.status)
                         /\ bytes[h].found
                         /\ bytes[h].ended_at # None
                         /\ now - latest.modified_at >= Interval)
                            => \E w \in Workers :
                                  wk[w].pc = "idle" /\ wk'[w].pc = "stalled"
            /\ \A w \in Workers :
                 (/\ wk[w].task_db.found
                  /\ IsFinished(wk[w].task_db.status)
                  /\ wk[w].task_bytes.found
                  /\ wk[w].task_bytes.ended_at # None) =>
                     /\ (wk[w].pc = "stalled" /\ wk'[w].pc # "stalled")
                            => wk'[w].pc = "push"
                     /\ (wk[w].pc = "push" /\ wk'[w].pc = "idle")
                            => \E i \in DOMAIN tasks' \ DOMAIN tasks :
                                  /\ tasks'[i].hash = wk[w].h
                                  /\ tasks'[i].status = QUEUED
                                  /\ tasks'[i].created_at = now]_vars

\* With an interval of one minute, a first task has finished and a second
\* task of the same candidate is queued, created after the interval and
\* before the global default has elapsed.
C6_Witness ==
    /\ env.interval = 1
    /\ \E i, j \in DOMAIN tasks :
          /\ tasks[i].hash = tasks[j].hash
          /\ IsFinished(tasks[i].status)
          /\ tasks[j].status = QUEUED
          /\ tasks[j].created_at - tasks[i].created_at >= Interval
          /\ tasks[j].created_at - tasks[i].created_at < PqGracePeriod

\* The grace period as the specification defines it: the scanner's interval
\* in minutes if positive, else the global default.
GracePeriod == IF ConfiguredInterval THEN Interval ELSE PqGracePeriod

\* C7: when a call of push_boefje_task finds the latest task of its
\* candidate DISPATCHED or RUNNING for longer than the grace period since
\* its last update (and the results store shows no run in progress), the
\* stored task is marked FAILED and the call goes on to push a fresh task.
C7_StalledRecovery ==
    [][\A w \in Workers :
          (/\ wk[w].pc = "stalled"
           /\ wk'[w].pc # "stalled"
           /\ wk[w].task_db.found
           /\ wk[w].task_db.status \in {DISPATCHED, RUNNING}
           /\ now - wk[w].task_db.modified_at > GracePeriod
           /\ ~(wk[w].task_bytes.found /\ wk[w].task_bytes.started
                    /\ wk[w].task_bytes.ended_at = None)) =>
              /\ tasks'[wk[w].task_db.id].status = FAILED
              /\ wk'[w].pc = "push"]_vars

(***************************************************************************)
(* Fan-out: the catalog duplicates the scanner of A into B; the listener   *)
(* is the only producer.                                                   *)
(***************************************************************************)
InitFan ==
    InitIn([interval : {None}, linked : {TRUE}, levelB : {1, 2},
            targets : {{"T1", "T2"}}])

NextFan ==
    \/ Mutation({CREATE}, Orgs)
    \/ \E w \in Workers : MutSubmit(w)
    \/ \E w \in Workers : PushStalled(w)
    \/ \E w \in Workers : PushBatch(w)
    \/ Pop
    \/ Popped

SpecFan == InitFan /\ [][NextFan]_vars

\* The tasks the call of worker w hands to the queue, once it is past the
\* checks.
Handed(w) == {wk'[w].batch[k] : k \in 1 .. Len(wk'[w].batch)}

\* C9: when push_boefje_task accepts a candidate of organisation A for a
\* target that exists in the linked organisation B, it hands two tasks to
\* the queue if the scanner's level is at most the level of B's target, one
\* for A and one for B, both with the id of A's task as deduplication key;
\* otherwise it hands A's task only.
C9_FanOut ==
    [][\A w \in Workers :
          (/\ wk[w].pc = "stalled"
           /\ wk'[w].pc = "push"
           /\ wk[w].h[3] = "A"
           /\ env.linked
           /\ \E x \in Objects(env, "B") : x.primary_key = wk[w].h[2]) =>
              LET mine == {x \in Handed(w) : x.hash = wk[w].h}
                  theirs == {x \in Handed(w) : x.hash = Hash(wk[w].h[1], wk[w].h[2], "B")}
                  level == get_plugin_by_id_and_org_id(env, wk[w].h[1], "A").scan_level
              IN  /\ Cardinality(mine) = 1
                  /\ Handed(w) = mine \cup theirs
                  /\ IF level <= env.levelB
                     THEN /\ Cardinality(theirs) = 1
                          /\ Len(wk'[w].batch) = 2
                          /\ \A x \in mine, y \in theirs :
                                x.dedup = x.id /\ y.dedup = x.id /\ y.id # x.id
                     ELSE /\ theirs = {}
                          /\ Len(wk'[w].batch) = 1]_vars

\* Both tasks of a fan-out are on the queue: A's task and B's task for the
\* same target, with A's id as the deduplication key of both.
C9_Witness ==
    \E i, j \in DOMAIN tasks :
        /\ tasks[i].hash[3] = "A"
        /\ tasks[j].hash[3] = "B"
        /\ tasks[i].hash[2] = tasks[j].hash[2]
        /\ tasks[i].status = QUEUED
        /\ tasks[j].status = QUEUED
        /\ tasks[i].dedup = i
        /\ tasks[j].dedup = i

(***************************************************************************)
(* Claims about BoefjePQ.pop under concurrent callers                      *)
(***************************************************************************)
\* C11: the selection of a pop and the transition to DISPATCHED are one
\* critical section: a pop selects queued tasks only while no other pop and
\* no batch push holds the queue, from its selection to its return no other
\* pop moves and no task is pushed, at its return every task it selected
\* is DISPATCHED in the store, and no task ever goes back to QUEUED, so no
\* task is returned by two pops.
C11_PopCriticalSection ==
    [][/\ \A r \in Poppers :
            /\ (pop[r].pc = "idle" /\ pop'[r].pc = "update") =>
                  /\ lock = Nobody
                  /\ lock' = r
                  /\ \A q \in Poppers \ {r} : pop[q].pc = "idle"
                  /\ \A i \in pop'[r].items :
                        /\ tasks[i].status = QUEUED
                        /\ \A q \in Poppers \ {r} : i \notin pop[q].items
            /\ (pop[r].pc = "update" /\ pop'[r].pc = "update") =>
                  /\ \A q \in Poppers : pop'[q] = pop[q]
                  /\ DOMAIN tasks' = DOMAIN tasks
                  /\ lock' = r
            /\ (pop[r].pc = "update" /\ pop'[r].pc = "idle") =>
                  /\ lock' = Nobody
                  /\ \A i \in pop[r].items : tasks'[i].status = DISPATCHED
       /\ \A i \in DOMAIN tasks :
            tasks[i].status # QUEUED => tasks'[i].status # QUEUED]_vars

\* A pop is between its selection and its return while a call of
\* push_boefje_task waits with a batch of two tasks for the queue lock.
C11_Witness ==
    \E r \in Poppers, w \in Workers :
        /\ pop[r].pc = "update"
        /\ pop[r].items # {}
        /\ lock = r
        /\ wk[w].pc = "push"
        /\ Len(wk[w].batch) = 2

(***************************************************************************)
(* Rescheduling: a schedule store with schedules of the cases of the loop, *)
(* the rescheduling thread as the only producer, and the task runner       *)
(* popping.                                                                *)
(***************************************************************************)
\* A schedule of the store: its organisation, its enabled flag and its
\* payload, the task it was created for, with the scanner as the catalog
\* described it then; h is the hash of the payload.
Schedule(boefje_id, input_ooi, org) ==
    [h |-> Hash(boefje_id, input_ooi, org), enabled |-> TRUE,
     organisation |-> org,
     data |-> [boefje |-> [id |-> boefje_id, version |-> StoredVersion],
               input_ooi |-> input_ooi, organization |-> org]]

\* One schedule per case of the loop: a schedule that passes, a scanner
\* that is gone, a disabled scanner, a normalizer, a target that is gone, a
\* target of a type the scanner does not consume, a target of organisation
\* B (denied when its level is 1), two schedules without a target, and a
\* normalizer whose target is gone.
ScheduleCases ==
    {Schedule(BoefjeId, "T1", "A"),
     Schedule(GoneId, "T1", "A"),
     Schedule(DisabledId, "T1", "A"),
     Schedule(NormalizerId, "T1", "A"),
     Schedule(BoefjeId, "T2", "A"),
     Schedule(DnsBoefjeId, "T1", "A"),
     Schedule(BoefjeId, "T1", "B"),
     Schedule(BoefjeId, NoOOI, "A"),
     Schedule(NoLevelId, NoOOI, "A"),
     Schedule(NormalizerId, "T2", "A")}

\* The schedule stores a behaviour may start with: MaxSchedules different
\* schedules, all enabled.
StoredSchedules ==
    {st \in [1 .. MaxSchedules -> ScheduleCases] :
        \A i, j \in 1 .. MaxSchedules : i # j => st[i] # st[j]}

InitResched ==
    /\ now = 0
    /\ tasks = EmptyTasks
    /\ bytes = [h \in Hashes |-> NoBytes]
    /\ lock = Nobody
    /\ wk = [w \in Workers |-> IdleWorker]
    /\ mut = IdleMut
    /\ nb = IdleNb
    /\ res \in {[IdleRes EXCEPT !.schedules = st] : st \in StoredSchedules}
    /\ pop = [r \in Poppers |-> IdlePop]
    /\ env \in [interval : {None}, linked : {FALSE}, levelB : {1, 2},
                targets : {{"T1"}}]
    /\ nextId = 1
    /\ perm = NoPerm
    /\ deadline = NoDeadline

NextResched ==
    \/ Rescheduling
    \/ \E w \in Workers : ResSubmit(w)
    \/ \E w \in Workers : PushStalled(w)
    \/ \E w \in Workers : PushBatch(w)
    \/ Pop
    \/ Popped

SpecResched == InitResched /\ [][NextResched]_vars

\* A run of process_rescheduling starts in this step.
ResStarting == res.todo = <<>> /\ res' # res

\* The facts the loop checks, as the catalog and the object graph hold them.
ScannerOf(h) == get_plugin_by_id_and_org_id(env, h[1], h[3])

TargetOf(h) == {x \in Objects(env, h[3]) : x.primary_key = h[2]}

ScannerGone(h) == ~ScannerOf(h).exists

ScannerDisabled(h) == ScannerOf(h).exists /\ ~ScannerOf(h).enabled

NotAScanner(h) ==
    ScannerOf(h).exists /\ ScannerOf(h).enabled /\ ScannerOf(h).type # "boefje"

TargetFails(h) ==
    /\ h[2] # NoOOI
    /\ \/ TargetOf(h) = {}
       \/ \E x \in TargetOf(h) :
             \/ x.object_type \notin ScannerOf(h).consumes
             \/ ~has_boefje_permission_to_run(ScannerOf(h), x)

PassesAll(h) ==
    ~ScannerGone(h) /\ ~ScannerDisabled(h) /\ ~NotAScanner(h) /\ ~TargetFails(h)

\* C12: a run of process_rescheduling that reaches the schedules disables
\* a due schedule exactly when its scanner is gone or disabled, or when the
\* scanner is of the scanner type and the referenced target is gone, of a
\* type the scanner does not consume, or denied by the permission check; a
\* schedule whose catalog entry is not a scanner stays enabled and yields
\* no candidate; the candidates are exactly the due schedules that pass all
\* checks; schedules that were not due are left alone.
C12_ReschedulingChecks ==
    [][(ResStarting /\ res'.outcome = "done") =>
          /\ Len(res'.schedules) = Len(res.schedules)
          /\ \A i \in 1 .. Len(res.schedules) :
                LET h == res.schedules[i].h
                IN  /\ res'.schedules[i].h = h
                    /\ i \notin res'.due => res'.schedules[i] = res.schedules[i]
                    /\ i \in res'.due =>
                          /\ res.schedules[i].enabled
                          /\ ~res'.schedules[i].enabled <=>
                                \/ ScannerGone(h)
                                \/ ScannerDisabled(h)
                                \/ (~NotAScanner(h) /\ TargetFails(h))
                          /\ NotAScanner(h) => res'.schedules[i].enabled
                          /\ (\E k \in 1 .. Len(res'.todo) : res'.todo[k].h = h)
                                <=> PassesAll(h)
          /\ \A k \in 1 .. Len(res'.todo) :
                \E i \in res'.due : res.schedules[i].h = res'.todo[k].h
          /\ Len(res'.todo) =
                Cardinality({i \in res'.due : PassesAll(res.schedules[i].h)})]_vars

\* A run found two schedules due: the schedule of the scanner that is gone
\* is disabled, and the task of the schedule that passes is on the queue.
C12_Witness ==
    /\ res.outcome = "done"
    /\ res.due = {1, 2}
    /\ res.schedules[1].h = Hash(BoefjeId, "T1", "A")
    /\ res.schedules[1].enabled
    /\ res.schedules[2].h = Hash(GoneId, "T1", "A")
    /\ ~res.schedules[2].enabled
    /\ \E i \in DOMAIN tasks :
          tasks[i].hash = res.schedules[1].h /\ tasks[i].status = QUEUED

(***************************************************************************)
(* New scanners with failing services: the new-scanner loop as the only    *)
(* producer, for two organisations, and the task runner popping.           *)
(***************************************************************************)
InitNew ==
    InitIn([interval : {None}, linked : {FALSE}, levelB : {2},
            targets : {{"T1"}, {"T1", "T2"}}])

NextNew ==
    \/ NewBoefjesFailing(Orgs)
    \/ \E w \in Workers : NbSubmit(w)
    \/ \E w \in Workers : PushStalled(w)
    \/ \E w \in Workers : PushBatch(w)
    \/ Pop
    \/ Popped

SpecNew == InitNew /\ [][NextNew]_vars

NbStarting == nb.todo = <<>> /\ nb' # nb

\* C13: in a run of process_new_boefjes, the candidates of every
\* organisation whose own calls answered are handed to the executor,
\* whatever the calls made for the other organisations answered (an
\* ExternalServiceError, or an HTTPStatusError of any status).
C13_FailureSkipped ==
    [][NbStarting =>
          \A org \in nb'.new :
              nb'.fail[org] = "ok" =>
                  LET cands == NewBoefjeCandidates(env, {org}, 1)
                  IN  \A j \in 1 .. Len(cands) :
                          \E k \in 1 .. Len(nb'.todo) : nb'.todo[k] = cands[j]]_vars

\* C14: in a run of process_rescheduling in which get_objects times out
\* for some organisations, the due schedules of every other organisation
\* are still checked (disabled when a check fails, submitted when all
\* checks pass), and the schedules of the organisations that timed out are
\* left as they were.
C14_TimeoutAbortsOneOrganisation ==
    [][ResStarting =>
          \A i \in res'.due :
              LET h == res.schedules[i].h
              IN  /\ h[3] \in res'.timeouts => res'.schedules[i] = res.schedules[i]
                  /\ h[3] \notin res'.timeouts =>
                        /\ PassesAll(h) =>
                              \E k \in 1 .. Len(res'.todo) : res'.todo[k].h = h
                        /\ (ScannerGone(h) \/ ScannerDisabled(h)) =>
                              ~res'.schedules[i].enabled]_vars

(***************************************************************************)
(* Isolation: runs of the new-scanner loop with two candidates each, a     *)
(* scanner with an interval of one minute, the task runner (which may      *)
(* finish a task without saving its results) and the clock.                *)
(***************************************************************************)
InitIsolate ==
    InitIn([interval : {1}, linked : {FALSE}, levelB : {2},
            targets : {{"T1", "T2"}}])

NextIsolate ==
    \/ NewBoefjes({"A"})
    \/ \E w \in Workers : NbSubmit(w)
    \/ \E w \in Workers : PushStalled(w)
    \/ \E w \in Workers : PushBatch(w)
    \/ \E w \in Workers : log_future_exceptions(w)
    \/ Pop
    \/ Popped
    \/ Started
    \/ Finished
    \/ TickClock

SpecIsolate == InitIsolate /\ [][NextIsolate]_vars

Producers == {"mut", "nb", "res"}

Todo(p) == IF p = "mut" THEN mut.todo ELSE IF p = "nb" THEN nb.todo ELSE res.todo

\* The step ends the call of worker w in an exception, or logs it.
Raising(w) ==
    \/ wk[w].pc # "raised" /\ wk'[w].pc = "raised"
    \/ wk[w].pc = "raised" /\ wk'[w].pc # "raised"

\* The step starts an invocation of producer p.
Invoking(p) ==
    IF p = "mut" THEN Todo(p) = <<>> /\ mut' # mut
    ELSE IF p = "nb" THEN NbStarting
    ELSE ResStarting

\* C15: a call of push_boefje_task that ends in an exception holds no
\* queue lock, and neither the exception nor its logging changes another
\* call or the candidates still to be submitted; an invocation starts only
\* when the one before it has submitted all its candidates and all its
\* calls have ended.
C15_ExceptionIsolated ==
    [][/\ \A w \in Workers :
             Raising(w) =>
                 /\ lock # w /\ lock' = lock
                 /\ \A v \in Workers \ {w} : wk'[v] = wk[v]
                 /\ mut'.todo = mut.todo
                 /\ nb'.todo = nb.todo
                 /\ res'.todo = res.todo
       /\ \A p \in Producers :
             Invoking(p) => Todo(p) = <<>> /\ Active(p) = {}]_vars

\* One call of a run of the new-scanner loop has ended in an exception
\* that is logged, and the task of the other candidate of the run is on
\* the queue.
C15_Witness ==
    \E w \in Workers, v \in Workers :
        /\ wk[w].pc = "raised" /\ wk[w].owner = "nb"
        /\ wk[v].pc = "push" /\ wk[v].owner = "nb"
        /\ wk[v].h # wk[w].h

(***************************************************************************)
(* Claims about the batch push                                             *)
(***************************************************************************)
\* The step is one turn of the batch loop of worker w.
Pushing(w) == wk[w].pc = "push" /\ wk'[w] # wk[w]

\* The queue refuses the task worker w pushes next.
Refused(w) == NotAllowed(tasks, push_item_to_queue(Head(wk[w].batch), nextId))

\* C16: every turn of the batch loop leaves the rows stored before it as
\* they were; a turn whose push is refused stores nothing; and after every
\* turn, refused or not, the loop goes on with the rest of the batch under
\* the lock, and ends only when the batch is empty.
C16_NotAllowedSkipsOneTask ==
    [][\A w \in Workers :
          Pushing(w) =>
              /\ \A i \in DOMAIN tasks : i \in DOMAIN tasks' /\ tasks'[i] = tasks[i]
              /\ Refused(w) => tasks' = tasks
              /\ ~Refused(w) =>
                    \E i \in DOMAIN tasks' \ DOMAIN tasks :
                        tasks'[i].hash = Head(wk[w].batch).hash
              /\ IF Len(wk[w].batch) > 1
                 THEN /\ wk'[w].pc = "push"
                      /\ wk'[w].batch = Tail(wk[w].batch)
                      /\ lock' = w
                 ELSE wk'[w].pc = "idle" /\ lock' = Nobody]_vars

\* The sibling task of a batch was refused, because B's own task for the
\* target was on the queue, and the original task of the batch, pushed
\* after it, is on the queue.
C16_Witness ==
    \E i, j \in DOMAIN tasks :
        /\ tasks[j].hash = Hash(BoefjeId, "T1", "B")
        /\ tasks[j].status = QUEUED
        /\ j < i
        /\ tasks[i].hash = Hash(BoefjeId, "T1", "A")
        /\ tasks[i].status = QUEUED
        /\ tasks[i].dedup = i
        /\ i + 1 \notin DOMAIN tasks
        /\ nextId > i + 1

(***************************************************************************)
(* Claims about a finished task without results                            *)
(***************************************************************************)
\* The stored task claims completion, the results store has no run of the
\* candidate, and the last update of the task is within the grace period.
ClaimsCompletion(task_db, task_bytes) ==
    /\ task_db.found
    /\ IsFinished(task_db.status)
    /\ ~task_bytes.found
    /\ now - task_db.modified_at < GracePeriod

\* C17: a call of push_boefje_task for a candidate whose latest task claims
\* completion within the grace period, with no run in the results store,
\* does not stop silently: it goes on to the running check, ends there in
\* the raised error, and stores nothing.
C17_ConsistencyViolationRaises ==
    [][/\ Submitting =>
             LET h == Head(mut.todo).h
             IN  ClaimsCompletion(get_latest_task_by_hash(tasks, h), bytes[h]) =>
                     /\ \E w \in Workers : wk[w].pc = "idle" /\ wk'[w].pc = "stalled"
                     /\ tasks' = tasks
       /\ \A w \in Workers :
             (/\ wk[w].pc = "stalled"
              /\ wk'[w].pc # "stalled"
              /\ ClaimsCompletion(wk[w].task_db, wk[w].task_bytes)) =>
                 wk'[w].pc = "raised" /\ tasks' = tasks]_vars

(***************************************************************************)
(* Redelivery: process_mutations run to its end on a task store, as a      *)
(* function of the store, so that two runs in a row can be compared.       *)
(***************************************************************************)
\* Lines 514-542 run to the end of the batch on the store ts.
RECURSIVE PushAll(_, _, _, _)
PushAll(ts, batch, fresh, t) ==
    IF batch = <<>> THEN ts
    ELSE LET item == Head(batch)
             task == push_item_to_queue(item, fresh)
         IN  PushAll(IF NotAllowed(ts, task) THEN ts
                     ELSE (task.id :> NewRow(ts, task, item.id, t)) @@ ts,
                     Tail(batch), fresh, t)

\* Mutant: the call pushes its task without any check, past the queue's
\* own refusal.
push_boefje_task_unchecked(st, t, h) ==
    [tasks |-> (st.nextId :> NewRow(st.tasks,
                                    [id |-> st.nextId, data_id |-> st.nextId,
                                     hash |-> h, dedup |-> None],
                                    st.nextId, t)) @@ st.tasks,
     nextId |-> st.nextId + 1]

\* Lines 436-542: one call of push_boefje_task at time t, run from its
\* first line to its last on the store st.tasks; st.nextId is the next
\* task id.
push_boefje_task(st, t, h) ==
    LET task_db == get_latest_task_by_hash(st.tasks, h)
        stalled == has_boefje_task_stalled(t, task_db)
        failed == IF stalled THEN [task_db EXCEPT !.status = FAILED] ELSE task_db
        ts == IF stalled THEN update_task(st.tasks, task_db.id, FAILED, t)
              ELSE st.tasks
        batch == Batch(env, h, st.nextId)
    IN  IF task_db.found /\ task_db.status = QUEUED THEN st
        ELSE IF ~has_boefje_task_grace_period_passed(env, t, task_db, bytes[h], h)
             THEN st
        ELSE IF has_boefje_task_started_running(t, failed, bytes[h]) # "no"
             THEN [st EXCEPT !.tasks = ts]
        ELSE [tasks |-> PushAll(ts, batch, st.nextId + Len(batch), t),
              nextId |-> st.nextId + Len(batch)]

\* Lines 201-206: every candidate is submitted and its call has ended.
RECURSIVE SubmitAll(_, _, _)
SubmitAll(st, t, todo) ==
    IF todo = <<>> THEN st
    ELSE SubmitAll(push_boefje_task(st, t, Head(todo).h), t, Tail(todo))

\* Lines 107-206: process_mutations for a CREATE or UPDATE message about
\* the object ooi of organisation org, at time t.
ProcessMutation(st, t, op, org, ooi) ==
    SubmitAll(st, t,
              MutationCandidates(env, op, ooi, org,
                                 get_boefjes_by_type_and_org_id(env, ooi.object_type, org)))

Store == [tasks |-> tasks, nextId |-> nextId]

Once(op, org, ooi) == ProcessMutation(Store, now, op, org, ooi)

Twice(op, org, ooi, t) == ProcessMutation(Once(op, org, ooi), t, op, org, ooi)

SameQueue(s1, s2) ==
    /\ DOMAIN s2.tasks = DOMAIN s1.tasks
    /\ QueuedIds(s2.tasks) = QueuedIds(s1.tasks)

\* After the first processing the latest task of every candidate of the
\* message is on the queue.
AllQueued(st, op, org, ooi) ==
    LET todo == MutationCandidates(env, op, ooi, org,
                                   get_boefjes_by_type_and_org_id(env, ooi.object_type, org))
    IN  \A k \in 1 .. Len(todo) :
            get_latest_task_by_hash(st.tasks, todo[k].h).status = QUEUED

\* C18 as stated: from any state of the stores, processing a CREATE or
\* UPDATE message and then, at the same or a later time and with nothing
\* else in between, processing it again stores no task beyond those of the
\* first processing and leaves the same tasks QUEUED.
C18_Redelivery ==
    \A op \in {CREATE, UPDATE}, org \in Orgs, t \in Times :
        \A ooi \in Objects(env, org) :
            t >= now =>
                SameQueue(Once(op, org, ooi), Twice(op, org, ooi, t))

\* C18, amended: the same, when the second processing runs at the time of
\* the first, or when the first left the latest task of every candidate on
\* the queue.
C18_RedeliveryWhileQueued ==
    \A op \in {CREATE, UPDATE}, org \in Orgs, t \in Times :
        \A ooi \in Objects(env, org) :
            (t >= now /\ (t = now \/ AllQueued(Once(op, org, ooi), op, org, ooi))) =>
                SameQueue(Once(op, org, ooi), Twice(op, org, ooi, t))

\* The stores hold a finished task of the candidate, processing the
\* message queues a second task, and processing it again a minute later
\* queues no third.
C18_Witness ==
    \E op \in {CREATE, UPDATE}, t \in Times :
        \E ooi \in Objects(env, "A") :
            /\ t > now
            /\ tasks # EmptyTasks
            /\ DOMAIN Once(op, "A", ooi).tasks # DOMAIN tasks
            /\ AllQueued(Once(op, "A", ooi), op, "A", ooi)
            /\ SameQueue(Once(op, "A", ooi), Twice(op, "A", ooi, t))

(***************************************************************************)
(* Claims about the permission check of the candidates                     *)
(***************************************************************************)
NoTarget == [is_none |-> TRUE, has_profile |-> FALSE, level |-> None]

\* has_boefje_permission_to_run for the scanner and the target of the
\* fingerprint h, as the catalog and the object graph hold them.
Permitted(h) ==
    IF h[2] = NoOOI THEN has_boefje_permission_to_run(ScannerOf(h), NoTarget)
    ELSE /\ TargetOf(h) # {}
         /\ has_boefje_permission_to_run(ScannerOf(h), ObjectOf(env, h[3], h[2]))

\* C19: every candidate that an invocation of the mutation path, of the
\* new-scanner path or of the rescheduling path builds for submission to
\* push_boefje_task is one for which has_boefje_permission_to_run answers
\* true, whether or not the scanner has a minimum level and whether or not
\* the candidate has a target.
C19_PermissionOnEveryCandidate ==
    [][/\ Invoking("mut") =>
             \A k \in 1 .. Len(mut'.todo) : Permitted(mut'.todo[k].h)
       /\ Invoking("nb") =>
             \A k \in 1 .. Len(nb'.todo) : Permitted(nb'.todo[k].h)
       /\ Invoking("res") =>
             \A k \in 1 .. Len(res'.todo) : Permitted(res'.todo[k].h)]_vars

(***************************************************************************)
(* Claims about the tasks of a fan-out                                     *)
(***************************************************************************)
\* The stored task stands in the way of a new task with its hash: it is on
\* the queue, in flight, or it finished within the grace period.
Blocks(i) ==
    \/ tasks[i].status \in {QUEUED, DISPATCHED, RUNNING}
    \/ IsFinished(tasks[i].status) /\ now - tasks[i].modified_at < GracePeriod

\* C20: a turn of the batch loop stores a sibling task (a task of the batch
\* whose hash is not that of the candidate of the call) only when no
\* stored task with the sibling's hash is QUEUED, DISPATCHED or RUNNING or
\* finished within the grace period.
C20_SiblingPassesChecks ==
    [][\A w \in Workers :
          (/\ Pushing(w)
           /\ Head(wk[w].batch).hash # wk[w].h
           /\ DOMAIN tasks' # DOMAIN tasks) =>
              \A i \in DOMAIN tasks :
                  tasks[i].hash = Head(wk[w].batch).hash => ~Blocks(i)]_vars

(***************************************************************************)
(* Cancellation and time: the listener creates and deletes one target,     *)
(* and the clock advances; nothing is popped.                              *)
(***************************************************************************)
InitCancel ==
    InitIn([interval : {None, 1}, linked : {FALSE}, levelB : {2},
            targets : {{"T1"}}])

NextCancel ==
    \/ Mutation({CREATE, DELETE}, {"A"})
    \/ MutCancel
    \/ \E w \in Workers : MutSubmit(w)
    \/ \E w \in Workers : PushStalled(w)
    \/ \E w \in Workers : PushBatch(w)
    \/ TickClock

SpecCancel == InitCancel /\ [][NextCancel]_vars

\* The stored task is CANCELLED and the grace period since its last update
\* has elapsed.
CancelledLongAgo(task_db) ==
    /\ task_db.found
    /\ task_db.status = CANCELLED
    /\ now - task_db.modified_at >= GracePeriod

\* C21: a call of push_boefje_task for a candidate whose latest task is
\* CANCELLED, the grace period since its last update having elapsed, is
\* not stopped by the lookup, the grace check or the running check: it
\* goes on to push a task.
C21_CancelledDoesNotBlock ==
    [][/\ Submitting =>
             (CancelledLongAgo(get_latest_task_by_hash(tasks, Head(mut.todo).h)) =>
                  \E w \in Workers : wk[w].pc = "idle" /\ wk'[w].pc = "stalled")
       /\ \A w \in Workers :
             (/\ wk[w].pc = "stalled"
              /\ wk'[w].pc # "stalled"
              /\ CancelledLongAgo(wk[w].task_db)) =>
                 wk'[w].pc = "push"]_vars

(***************************************************************************)
(* Claims about the organisation of a DELETE mutation                      *)
(***************************************************************************)
\* C22: the tasks that the handler of a DELETE mutation received for an
\* organisation takes for cancelling (each of them is set to CANCELLED by
\* the loop that follows) all belong to that organisation.
C22_DeleteWithinOrganisation ==
    [][\A org \in Orgs :
          \A ooi \in Objects(env, org) :
              MutReceive(DELETE, org, ooi) =>
                  \A i \in mut'.items : tasks[i].hash[3] = org]_vars

(***************************************************************************)
(* Claims about the checks of push_boefje_task, one by one                 *)
(***************************************************************************)
\* The results store shows a run of the candidate started and not ended.
RunInProgress(task_bytes) ==
    task_bytes.found /\ task_bytes.started /\ task_bytes.ended_at = None

\* The stored task is still active and has not exceeded the grace period,
\* or the results store shows a run in progress.
StillRunning(task_db, task_bytes) ==
    \/ /\ task_db.found
       /\ ~IsFinished(task_db.status)
       /\ now - task_db.modified_at <= GracePeriod
    \/ RunInProgress(task_bytes)

\* C23: a call of push_boefje_task whose latest stored task is still
\* active within the grace period, or whose candidate has a run in
\* progress in the results store, hands nothing to the queue: it stops at
\* the lookup, at the grace check or at the running check, and no task is
\* added.
C23_StillRunningPushesNothing ==
    [][/\ Submitting =>
             LET h == Head(mut.todo).h
             IN  StillRunning(get_latest_task_by_hash(tasks, h), bytes[h]) =>
                     /\ DOMAIN tasks' = DOMAIN tasks
                     /\ \A w \in Workers : wk'[w].pc # "push"
       /\ \A w \in Workers :
             (/\ wk[w].pc = "stalled"
              /\ wk'[w].pc # "stalled"
              /\ StillRunning(wk[w].task_db, wk[w].task_bytes)) =>
                 /\ wk'[w].pc = "idle"
                 /\ DOMAIN tasks' = DOMAIN tasks]_vars

\* A call is at the running check with a stored task that stalled long
\* ago and a run of the candidate in progress in the results store.
C23_Witness ==
    \E w \in Workers :
        /\ wk[w].pc = "stalled"
        /\ wk[w].task_db.found
        /\ wk[w].task_db.status = RUNNING
        /\ now - wk[w].task_db.modified_at > PqGracePeriod
        /\ RunInProgress(wk[w].task_bytes)

(***************************************************************************)
(* Grace period: the scenario of SpecTime with a task runner that may save *)
(* its results after it reported the task finished.                        *)
(***************************************************************************)
NextGrace ==
    \/ Mutation({CREATE, UPDATE}, {"A"})
    \/ \E w \in Workers : MutSubmit(w)
    \/ \E w \in Workers : PushStalled(w)
    \/ \E w \in Workers : PushBatch(w)
    \/ \E w \in Workers : log_future_exceptions(w)
    \/ Pop
    \/ Popped
    \/ Started
    \/ Finished
    \/ SavedLate
    \/ TickClock

SpecGrace == InitTime /\ [][NextGrace]_vars

\* The last update of the stored task, or the end of the last completed
\* run in the results store, is less than the grace period ago.
WithinGrace(task_db, task_bytes) ==
    \/ task_db.found /\ now - task_db.modified_at < GracePeriod
    \/ /\ task_bytes.found
       /\ task_bytes.ended_at # None
       /\ now - task_bytes.ended_at < GracePeriod

\* C24: a call of push_boefje_task made less than the grace period after
\* the last update of the candidate's latest task, or after the end of its
\* last completed run, stops before it changes anything, whatever the
\* status of the stored task.
C24_GraceCheck ==
    [][Submitting =>
          LET h == Head(mut.todo).h
          IN  WithinGrace(get_latest_task_by_hash(tasks, h), bytes[h]) =>
                  wk' = wk /\ tasks' = tasks /\ nextId' = nextId]_vars

\* A candidate is about to be submitted whose latest task was updated more
\* than the grace period ago and whose last run ended within it.
C24_Witness ==
    /\ mut.todo # <<>>
    /\ LET h == Head(mut.todo).h
           task_db == get_latest_task_by_hash(tasks, h)
       IN  /\ task_db.found
           /\ now - task_db.modified_at >= GracePeriod
           /\ bytes[h].found
           /\ bytes[h].ended_at # None
           /\ now - bytes[h].ended_at < GracePeriod

(***************************************************************************)
(* Rescheduling with failing services: the schedule store of SpecResched,  *)
(* with runs of process_rescheduling in which the due-schedule query, the  *)
(* validation of a payload, the catalog lookup or a schedule update fails. *)
(***************************************************************************)
NextReschedFail ==
    \/ ReschedulingFailing
    \/ \E w \in Workers : ResSubmit(w)
    \/ \E w \in Workers : PushStalled(w)
    \/ \E w \in Workers : PushBatch(w)
    \/ Pop
    \/ Popped

SpecReschedFail == InitResched /\ [][NextReschedFail]_vars

\* C25: a run of process_rescheduling in which a due schedule has a
\* malformed payload, or its catalog lookup or schedule update fails, skips
\* only that schedule and raises nothing: every other due schedule is still
\* checked, so it is submitted if it passes all checks and disabled if its
\* scanner is gone or disabled.
C25_FailingScheduleSkipped ==
    [][(ResStarting /\ ~res'.query_failed) =>
          /\ res'.outcome # "raised"
          /\ \A i \in res'.due \ (res'.malformed \cup res'.failing) :
                LET h == res.schedules[i].h
                IN  /\ PassesAll(h) =>
                          \E k \in 1 .. Len(res'.todo) : res'.todo[k].h = h
                    /\ (ScannerGone(h) \/ ScannerDisabled(h)) =>
                          ~res'.schedules[i].enabled]_vars

\* C26: a run of process_rescheduling whose due-schedule query fails with
\* a storage error submits no task, disables no schedule and raises no
\* further error.
C26_QueryFailureEndsCleanly ==
    [][(ResStarting /\ res'.query_failed) =>
          /\ res'.todo = <<>>
          /\ res'.schedules = res.schedules
          /\ res'.outcome # "raised"]_vars

\* C27: when the handler of a DELETE mutation for target T returns, no task
\* whose payload references T is QUEUED or DISPATCHED.
C27_DeleteCancelsQueuedAndDispatched ==
    [][(mut' # mut /\ mut'.ooi # NoOOI /\ mut'.items = {}) =>
          \A i \in DOMAIN tasks' :
              tasks'[i].hash[2] = mut'.ooi =>
                  tasks'[i].status \notin {QUEUED, DISPATCHED}]_vars

(***************************************************************************)
(* Mutations with a catalog of several scanners: CREATE and UPDATE         *)
(* mutations for the targets of the organisations, for which the catalog   *)
(* returns scanners that differ in minimum level and in run_on set.        *)
(***************************************************************************)
\* The ids of the scanners the catalog may return.
ScannerIds == {BoefjeId, NoLevelId}

\* The scanners the catalog may return: the targets have level 2, so a
\* scanner of level 3 is denied.
ScannerCases ==
    {[get_plugin_by_id_and_org_id(env, BoefjeId, "A")
        EXCEPT !.id = i, !.scan_level = l, !.run_on = r] :
        i \in ScannerIds, l \in {2, 3},
        r \in SUBSET {RunOnCreate, RunOnUpdate}}

\* The answers of the catalog: lists of scanners with different ids.
CatalogAnswers ==
    UNION {{bs \in [1 .. n -> ScannerCases] :
               \A i, j \in 1 .. n : i # j => bs[i].id # bs[j].id} :
           n \in 0 .. Cardinality(ScannerIds)}

\* The mutation stream delivers a CREATE or UPDATE message, and the catalog
\* answers with a list of scanners.
MutationCatalog(orgs) ==
    \E op \in {CREATE, UPDATE}, org \in orgs :
        \E ooi \in Objects(env, org), boefjes \in CatalogAnswers :
            MutReceiveFrom(op, org, ooi, boefjes)

InitRunOn ==
    InitIn({[interval |-> None, linked |-> FALSE, levelB |-> 2, targets |-> {"T1"}]})

NextRunOn ==
    \/ MutationCatalog(Orgs)
    \/ \E w \in Workers : MutSubmit(w)
    \/ \E w \in Workers : PushStalled(w)
    \/ \E w \in Workers : PushBatch(w)

SpecRunOn == InitRunOn /\ [][NextRunOn]_vars

\* The member of RunOn that stands for a mutation operation.
OperationAsRunOn(op) == IF op = CREATE THEN RunOnCreate ELSE RunOnUpdate

\* The candidates of todo for scanner b, target ooi and organisation org.
CandidatesFor(todo, b, ooi, org) ==
    {k \in 1 .. Len(todo) : todo[k].h = Hash(b.id, ooi.primary_key, org)}

\* C28: for a CREATE or UPDATE mutation on a target of an organisation,
\* process_mutations submits exactly one candidate for each scanner the
\* catalog returns that passes the permission check and, when it declares a
\* run_on set, has the operation of the mutation in that set; it submits no
\* candidate for the other scanners.
C28_MutationCandidates ==
    [][(MutIdle /\ mut' # mut) =>
       \A op \in {CREATE, UPDATE}, org \in Orgs :
          \A ooi \in Objects(env, org), boefjes \in CatalogAnswers :
              MutReceiveFrom(op, org, ooi, boefjes) =>
                  /\ \A k \in 1 .. Len(boefjes) :
                        Cardinality(CandidatesFor(mut'.todo, boefjes[k], ooi, org)) =
                            IF /\ has_boefje_permission_to_run(boefjes[k], ooi)
                               /\ \/ boefjes[k].run_on = {}
                                  \/ OperationAsRunOn(op) \in boefjes[k].run_on
                            THEN 1 ELSE 0
                  /\ \A j \in 1 .. Len(mut'.todo) :
                        \E k \in 1 .. Len(boefjes) :
                            j \in CandidatesFor(mut'.todo, boefjes[k], ooi, org)]_vars

\* A mutation left two candidates: one of a scanner that declares a run_on
\* set with the operation in it, one of a scanner without a run_on set.
C28_Witness ==
    /\ Len(mut.todo) = 2
    /\ ~mut.todo[1].create_schedule
    /\ mut.todo[2].create_schedule
    /\ mut.todo[1].h[1] # mut.todo[2].h[1]

(***************************************************************************)
(* Items with ids chosen by the caller: push_item_to_queue called with     *)
(* items whose task id and payload id agree or differ, and the task runner *)
(* popping.                                                                *)
(***************************************************************************)
\* The ids a caller may give to an item; the ids minted are 1 .. MaxIds.
CallerIds == {MaxIds + 1, MaxIds + 2}

CallerItems ==
    [id : CallerIds, data_id : CallerIds,
     hash : {Hash(BoefjeId, "T1", o) : o \in Orgs}, dedup : {None}]

\* A caller hands an item to push_item_to_queue.
PushedItem == \E item \in CallerItems : PushItem(item)

InitItem ==
    InitIn({[interval |-> None, linked |-> FALSE, levelB |-> 2, targets |-> {"T1"}]})

NextItem ==
    \/ PushedItem
    \/ Pop
    \/ Popped

SpecItem == InitItem /\ [][NextItem]_vars

InitQueued ==
    InitIn([interval : {None}, linked : BOOLEAN, levelB : {2}, targets : {{"T1"}}])

NextQueued ==
    \/ Mutation({CREATE, UPDATE}, {"A"})
    \/ \E w \in Workers : MutSubmit(w)
    \/ \E w \in Workers : PushStalled(w)
    \/ \E w \in Workers : PushBatch(w)
    \/ Pop
    \/ Popped
    \/ Started
    \/ Finished
    \/ TickClock

SpecQueued == InitQueued /\ [][NextQueued]_vars

\* C30: a call of push_boefje_task that finds the latest stored task of the
\* candidate's hash QUEUED does nothing: it changes no task, no queue entry
\* and no schedule, mints no id, and hands neither the candidate nor a
\* fan-out sibling to the queue.
C30_AlreadyQueuedIsNoOp ==
    [][Submitting =>
          LET h == Head(mut.todo).h
              task_db == get_latest_task_by_hash(tasks, h)
          IN  (task_db.found /\ task_db.status = QUEUED) =>
                  /\ tasks' = tasks
                  /\ wk' = wk
                  /\ nextId' = nextId
                  /\ res' = res
                  /\ lock' = lock
                  /\ bytes' = bytes]_vars

\* A candidate is about to be submitted whose latest stored task is QUEUED
\* and was queued longer ago than the grace period, so that the queued
\* check is the only one that stops the call.
C30_Witness ==
    /\ mut.todo # <<>>
    /\ \E w \in Workers : FreeWorker(w)
    /\ LET h == Head(mut.todo).h
           task_db == get_latest_task_by_hash(tasks, h)
       IN  /\ task_db.found
           /\ task_db.status = QUEUED
           /\ has_boefje_task_grace_period_passed(env, now, task_db, bytes[h], h)
           /\ Len(is_boefje_in_other_orgs(env, h)) > 0

(***************************************************************************)
(* calculate_deadline                                                      *)
(***************************************************************************)
NoCron == "-"

\* Scheduler.calculate_deadline of the base class, which the override
\* calls. base is the deadline its policy gives the schedule; the policy
\* may leave the deadline of the schedule as it is.
Scheduler_calculate_deadline(schedule, base) ==
    [schedule EXCEPT !.deadline_at = base, !.by_base = TRUE]

\* BoefjeScheduler.calculate_deadline (lines 854-869): the cron expression
\* of the scanner, then its interval, then the base class in every case.
calculate_deadline(schedule, plugin, t, base) ==
    LET with_cron == IF plugin.cron # NoCron
                     THEN [schedule EXCEPT !.schedule = plugin.cron]
                     ELSE schedule
        with_interval == IF plugin.interval # None /\ plugin.interval > 0
                         THEN [with_cron EXCEPT
                                 !.deadline_at = t + plugin.interval * SecondsPerMinute]
                         ELSE with_cron
    IN  Scheduler_calculate_deadline(with_interval, base)

\* The schedules handed to calculate_deadline, the catalog entries of their
\* scanners, and the deadlines the base policy may give.
DeadlineSchedules ==
    [schedule : {NoCron, "0 0 * * *"}, deadline_at : {None, 0}, by_base : {FALSE}]

DeadlinePlugins == [cron : {NoCron, "0 * * * *"}, interval : {None, 0, 1, 2}]

BaseDeadlines(schedule) == {schedule.deadline_at, None, MaxTime + Tick}

\* One call of calculate_deadline at the time of the clock.
CalculateDeadline ==
    /\ deadline.pc = "in"
    /\ \E base \in BaseDeadlines(deadline.schedule) :
          deadline' = [deadline EXCEPT
                         !.pc = "out",
                         !.at = now,
                         !.result = calculate_deadline(deadline.schedule, deadline.plugin,
                                                       now, base)]
    /\ UNCHANGED <<now, tasks, bytes, lock, wk, mut, nb, res, pop, env, nextId, perm>>

InitDeadline ==
    /\ now = 0
    /\ tasks = EmptyTasks
    /\ bytes = [h \in Hashes |-> NoBytes]
    /\ lock = Nobody
    /\ wk = [w \in Workers |-> IdleWorker]
    /\ mut = IdleMut
    /\ nb = IdleNb
    /\ res = IdleRes
    /\ pop = [r \in Poppers |-> IdlePop]
    /\ env = [interval |-> None, linked |-> FALSE, levelB |-> 2, targets |-> {"T1"}]
    /\ nextId = 1
    /\ perm = NoPerm
    /\ deadline \in {[pc |-> "in", schedule |-> s, plugin |-> p, at |-> None, result |-> s] :
                        s \in DeadlineSchedules, p \in DeadlinePlugins}

NextDeadline ==
    \/ CalculateDeadline
    \/ TickClock

SpecDeadline == InitDeadline /\ [][NextDeadline]_vars

PositiveInterval(plugin) == plugin.interval # None /\ plugin.interval > 0

\* C31: calculate_deadline sets the recurrence of the schedule to the cron
\* expression of the scanner if it declares one, sets the deadline to now
\* plus the interval in minutes if the scanner declares a positive
\* interval, and applies the base deadline policy only when the scanner
\* declares neither, so that an interval-derived deadline is what the call
\* returns.
C31_DeadlinePolicy ==
    deadline.pc = "out" =>
        /\ deadline.plugin.cron # NoCron =>
              deadline.result.schedule = deadline.plugin.cron
        /\ PositiveInterval(deadline.plugin) =>
              deadline.result.deadline_at =
                  deadline.at + deadline.plugin.interval * SecondsPerMinute
        /\ deadline.result.by_base <=>
              (deadline.plugin.cron = NoCron /\ ~PositiveInterval(deadline.plugin))

(***************************************************************************)
(* The consistency error: the scenario of SpecTime for scanners without an *)
(* interval and with intervals below and at the global grace period.       *)
(***************************************************************************)
InitRaise ==
    InitIn([interval : {None, 0, 1, 2}, linked : {FALSE}, levelB : {2},
            targets : {{"T1"}}])

SpecRaise == InitRaise /\ [][NextTime]_vars

\* C32: a call of push_boefje_task ends in the error of a finished task
\* without results only for a scanner whose interval is positive and
\* shorter than the global grace period; with the global grace period in
\* force the grace-period check has stopped the call before.
C32_RaiseNeedsShortInterval ==
    [][\A w \in Workers :
          (wk[w].pc # "raised" /\ wk'[w].pc = "raised") =>
              /\ ConfiguredInterval
              /\ Interval < PqGracePeriod]_vars

\* With the global grace period in force, a call has passed the grace
\* check and is at the running check with a finished task that has no
\* results in the results store.
C32_Witness ==
    /\ ~ConfiguredInterval
    /\ \E w \in Workers :
          /\ wk[w].pc = "stalled"
          /\ wk[w].task_db.found
          /\ IsFinished(wk[w].task_db.status)
          /\ ~wk[w].task_bytes.found

(***************************************************************************)
(* New scanners of several kinds: runs of process_new_boefjes in which the *)
(* catalog reports up to two new scanners for A and up to one for B, which *)
(* differ in minimum level, consumed type and enabled flag.                *)
(***************************************************************************)
\* The new scanners the catalog may report. The targets have level 1 or 2,
\* so a scanner of level 3 finds none.
NewScannerCases ==
    LET b1 == get_plugin_by_id_and_org_id(env, BoefjeId, "A")
    IN  {b1,
         [b1 EXCEPT !.scan_level = 3],
         [b1 EXCEPT !.consumes = {"DNSZone"}],
         [b1 EXCEPT !.enabled = FALSE],
         [b1 EXCEPT !.id = NoLevelId, !.scan_level = 1]}

NewScannerLists ==
    UNION {{bs \in [1 .. n -> NewScannerCases] :
               \A i, j \in 1 .. n : i # j => bs[i].id # bs[j].id} :
           n \in 0 .. Cardinality(ScannerIds)}

\* The timer starts a run of process_new_boefjes, and the catalog answers
\* with the new scanners of every organisation.
NewBoefjesCatalog ==
    \E catalog \in [Orgs -> NewScannerLists] :
        /\ catalog # NoCatalog
        /\ Len(catalog["B"]) <= 1
        /\ NbRunFrom(catalog)

InitScanners ==
    InitIn([interval : {None}, linked : {FALSE}, levelB : {1, 2},
            targets : {{"T1", "T2"}}])

NextScanners ==
    \/ NewBoefjesCatalog
    \/ \E w \in Workers : NbSubmit(w)
    \/ \E w \in Workers : PushStalled(w)
    \/ \E w \in Workers : PushBatch(w)

SpecScanners == InitScanners /\ [][NextScanners]_vars

\* The scanner is enabled, consumes the type of the target, and the level
\* of the target is in the range from its minimum level through 4.
Matches(boefje, ooi) ==
    /\ boefje.enabled
    /\ ooi.object_type \in boefje.consumes
    /\ boefje.scan_level <= ooi.level
    /\ ooi.level <= 4

\* C33: a run of process_new_boefjes in which the services answer builds,
\* for every organisation, exactly one candidate per new scanner and target
\* of the organisation whose type the scanner consumes and whose level is
\* at least the minimum level of the scanner and at most 4, and no other
\* candidate; a disabled scanner yields none.
C33_NewBoefjeCandidates ==
    [][(NbStarting /\ nb'.outcome = "done" /\ nb'.fail = NoFailure) =>
          /\ \A org \in Orgs :
                \A k \in 1 .. Len(nb'.catalog[org]) :
                    \A ooi \in Objects(env, org) :
                        Cardinality(CandidatesFor(nb'.todo, nb'.catalog[org][k], ooi, org)) =
                            IF Matches(nb'.catalog[org][k], ooi) THEN 1 ELSE 0
          /\ \A j \in 1 .. Len(nb'.todo) :
                \E org \in Orgs :
                    \E k \in 1 .. Len(nb'.catalog[org]) :
                        \E ooi \in Objects(env, org) :
                            j \in CandidatesFor(nb'.todo, nb'.catalog[org][k], ooi, org)]_vars

\* A run found two new scanners for A, one disabled and one enabled, and
\* one for B: the candidates are those of the enabled scanner of A for its
\* two targets and that of the scanner of B.
C33_Witness ==
    /\ nb.outcome = "done"
    /\ Len(nb.catalog["A"]) = 2
    /\ ~nb.catalog["A"][1].enabled
    /\ nb.catalog["A"][2].enabled
    /\ Len(nb.catalog["B"]) = 1
    /\ Matches(nb.catalog["B"][1], CHOOSE x \in Objects(env, "B") : TRUE)
    /\ Len(nb.todo) = 3

\* C34: the candidate that a run of process_rescheduling submits for a due
\* schedule that passes all checks is built from the catalog entry of the
\* scanner and the target fetched in the run and from the organisation of
\* the schedule, not from the payload stored in the schedule.
C34_CandidateRebuilt ==
    [][(ResStarting /\ res'.outcome = "done") =>
          \A i \in res'.due :
              LET schedule == res.schedules[i]
                  plugin == get_plugin_by_id_and_org_id(env, schedule.data.boefje.id,
                                                        schedule.organisation)
                  found == TargetOf(schedule.h)
              IN  PassesAll(schedule.h) =>
                      \E k \in 1 .. Len(res'.todo) :
                          /\ res'.todo[k].boefje.id = plugin.id
                          /\ res'.todo[k].boefje.version = plugin.version
                          /\ res'.todo[k].h[1] = plugin.id
                          /\ res'.todo[k].h[3] = schedule.organisation
                          /\ IF schedule.data.input_ooi = NoOOI
                             THEN res'.todo[k].h[2] = NoOOI
                             ELSE \E x \in found : res'.todo[k].h[2] = x.primary_key]_vars

\* A run has left a candidate whose scanner is of the version of the
\* catalog, for a due schedule whose payload still holds the version of the
\* scanner at the time the schedule was stored.
C34_Witness ==
    /\ res.outcome = "done"
    /\ \E k \in 1 .. Len(res.todo) :
          \E i \in res.due :
              /\ res.todo[k].h = res.schedules[i].h
              /\ res.schedules[i].data.input_ooi # NoOOI
              /\ res.todo[k].boefje.version = CurrentVersion
              /\ res.schedules[i].data.boefje.version # CurrentVersion

\* C35: the only change made to a schedule is that a run of
\* process_rescheduling sets the enabled flag of a due schedule from true
\* to false; no step enables a schedule, and a schedule that passes all
\* checks, that fails only the scanner-type check, or at which an error
\* occurred is left as it was.
C35_OnlyDisables ==
    [][/\ Len(res'.schedules) = Len(res.schedules)
       /\ \A i \in 1 .. Len(res.schedules) :
             LET h == res.schedules[i].h
             IN  /\ ~res.schedules[i].enabled => res'.schedules[i] = res.schedules[i]
                 /\ res'.schedules[i] # res.schedules[i] =>
                       /\ ResStarting
                       /\ i \in res'.due
                       /\ res.schedules[i].enabled
                       /\ res'.schedules[i] = [res.schedules[i] EXCEPT !.enabled = FALSE]
                 /\ (PassesAll(h) \/ NotAScanner(h)
                        \/ i \in res'.malformed \cup res'.failing) =>
                       res'.schedules[i] = res.schedules[i]]_vars

\* A run ended at a schedule for which a call failed: the schedule is
\* still enabled, and a due schedule before it was disabled.
C35_Witness ==
    /\ res.outcome = "raised"
    /\ \E i \in res.failing, j \in res.due :
          /\ res.schedules[i].enabled
          /\ ~res.schedules[j].enabled

(***************************************************************************)
(* Deduplication keys: mutations and due schedules as producers, with and  *)
(* without the link of the scanner into organisation B, for candidates     *)
(* with a target in both organisations, with a target in A only, and       *)
(* without a target.                                                       *)
(***************************************************************************)
InitDedup ==
    /\ now = 0
    /\ tasks = EmptyTasks
    /\ bytes = [h \in Hashes |-> NoBytes]
    /\ lock = Nobody
    /\ wk = [w \in Workers |-> IdleWorker]
    /\ mut = IdleMut
    /\ nb = IdleNb
    /\ res = [IdleRes EXCEPT !.schedules = <<Schedule(BoefjeId, NoOOI, "A"),
                                            Schedule(BoefjeId, "T2", "A")>>]
    /\ pop = [r \in Poppers |-> IdlePop]
    /\ env \in [interval : {None}, linked : BOOLEAN, levelB : {1, 2},
                targets : {{"T1", "T2"}}]
    /\ nextId = 1
    /\ perm = NoPerm
    /\ deadline = NoDeadline

NextDedup ==
    \/ Mutation({CREATE}, Orgs)
    \/ \E w \in Workers : MutSubmit(w)
    \/ Rescheduling
    \/ \E w \in Workers : ResSubmit(w)
    \/ \E w \in Workers : PushStalled(w)
    \/ \E w \in Workers : PushBatch(w)

SpecDedup == InitDedup /\ [][NextDedup]_vars

\* C36: in the batch a call of push_boefje_task hands to the queue there is
\* one task of the candidate, and it carries a deduplication key, its own
\* id, exactly when the batch holds a sibling task; the batch of a
\* candidate without a target holds no sibling, and every sibling is of
\* another organisation, linked to the scanner, in which the target exists.
C36_DeduplicationKey ==
    [][\A w \in Workers :
          (wk[w].pc = "stalled" /\ wk'[w].pc = "push") =>
              LET h == wk[w].h
                  mine == {x \in Handed(w) : x.hash = h}
                  siblings == Handed(w) \ mine
              IN  /\ Cardinality(Handed(w)) = Len(wk'[w].batch)
                  /\ Cardinality(mine) = 1
                  /\ \A x \in mine :
                        IF siblings = {} THEN x.dedup = None
                        ELSE x.dedup # None /\ x.dedup = x.id
                  /\ h[2] = NoOOI => siblings = {}
                  /\ \A y \in siblings :
                        /\ y.hash[1] = h[1]
                        /\ y.hash[2] = h[2]
                        /\ y.hash[3] # h[3]
                        /\ \E k \in 1 .. Len(get_configs(env, h[1], h[3])) :
                              get_configs(env, h[1], h[3])[k] = y.hash[3]
                        /\ \E x \in Objects(env, y.hash[3]) :
                              x.primary_key = h[2]]_vars

\* With the scanner linked into B, one call holds the batch of a candidate
\* without a target, a single task without a deduplication key, while
\* another holds the batch of a candidate whose target exists in B, with a
\* sibling and the key.
C36_Witness ==
    /\ env.linked
    /\ \E v, w \in Workers :
          /\ wk[v].pc = "push"
          /\ wk[v].h[2] = NoOOI
          /\ Len(wk[v].batch) = 1
          /\ wk[v].batch[1].dedup = None
          /\ wk[w].pc = "push"
          /\ Len(wk[w].batch) = 2
          /\ wk[w].batch[2].dedup = wk[w].batch[2].id

\* C37: every candidate a CREATE or UPDATE mutation submits for a scanner
\* that declares a run_on set is submitted with create_schedule false, and
\* every candidate for a scanner without a run_on set with create_schedule
\* true.
C37_RunOnCreatesNoSchedule ==
    [][(MutIdle /\ mut' # mut) =>
       \A op \in {CREATE, UPDATE}, org \in Orgs :
          \A ooi \in Objects(env, org), boefjes \in CatalogAnswers :
              MutReceiveFrom(op, org, ooi, boefjes) =>
                  \A k \in 1 .. Len(boefjes) :
                      \A j \in CandidatesFor(mut'.todo, boefjes[k], ooi, org) :
                          mut'.todo[j].create_schedule <=> boefjes[k].run_on = {}]_vars

\* A mutation left two candidates: the first of a scanner without a run_on
\* set, to be scheduled, the second of a scanner that declares one, not to
\* be scheduled.
C37_Witness ==
    /\ Len(mut.todo) = 2
    /\ mut.todo[1].create_schedule
    /\ ~mut.todo[2].create_schedule

(***************************************************************************)
(* Mutations without a value: the scenario of SpecDelete with CREATE,      *)
(* UPDATE and DELETE mutations that carry an object or none.               *)
(***************************************************************************)
\* The mutation stream delivers a message without a value.
MutationWithoutValue(ops, orgs) ==
    \E op \in ops, org \in orgs : MutReceive(op, org, NoValue)

NextNoValue ==
    \/ Mutation({CREATE, UPDATE, DELETE}, Orgs)
    \/ MutationWithoutValue({CREATE, UPDATE, DELETE}, Orgs)
    \/ MutCancel
    \/ \E w \in Workers : MutSubmit(w)
    \/ \E w \in Workers : PushStalled(w)
    \/ \E w \in Workers : PushBatch(w)
    \/ Pop
    \/ Popped

SpecNoValue == InitDelete /\ [][NextNoValue]_vars

\* C38: process_mutations called with a mutation that carries no value
\* changes no task, hands no candidate to its pool and no task to the
\* queue, and reads no item to cancel, whether the operation is CREATE,
\* UPDATE or DELETE.
C38_NoValueIsNoOp ==
    [][\A op \in {CREATE, UPDATE, DELETE}, org \in Orgs :
          MutReceive(op, org, NoValue) =>
              /\ tasks' = tasks
              /\ wk' = wk
              /\ nextId' = nextId
              /\ lock' = lock
              /\ mut'.todo = mut.todo
              /\ mut'.items = mut.items
              /\ mut'.all = mut.all
              /\ mut'.ooi = mut.ooi]_vars

\* A mutation without a value was skipped after a DELETE had cancelled a
\* task, while another task is on the queue.
C38_Witness ==
    /\ mut.skipped
    /\ mut.ooi # NoOOI
    /\ \E i, j \in DOMAIN tasks :
          /\ tasks[i].status = CANCELLED
          /\ tasks[j].status = QUEUED

====
